---- MODULE Spec2Model ----
(***************************************************************************)
(* fitbit-to-kml: the authorized API client (fitbit_to_kml/client.py) and  *)
(* the resumable TCX download plan (fitbit_to_kml/tcx.py).                 *)
(*                                                                         *)
(* download_plan is one sequential loop; its steps are split where the     *)
(* outside world can observe them (an HTTP send, a token-endpoint POST, a  *)
(* file write, the flag assignment, the plan checkpoint), so that every    *)
(* point at which the process may be terminated is a state of the model.   *)
(***************************************************************************)
EXTENDS Integers, Sequences, FiniteSets

VARIABLES
    items,                  \* download_plan: items, the in-memory plan (list of TCXDownloadItem)
    planFile,               \* the plan document on disk at plan_path
    plan_path,              \* download_plan parameter: TRUE iff a plan_path was supplied
    dry_run,                \* download_plan parameter
    summary,                \* TCXDownloadSummary of the running/last call
    prevSummary,            \* summary returned by the previous call of download_plan
    idx,                    \* position of `for item in items`
    pc,                     \* position inside download_plan / request
    runsLeft,               \* calls of download_plan still to be made on this plan
    token,                  \* FitbitAPIClient._token
    tokenFile,              \* token document on disk at token_path
    credentials,            \* TRUE iff client_id and client_secret are both set
    expiring,               \* clock: TRUE iff token.expires_at <= now + 1 minute
    server,                 \* server[i]: statuses the track endpoint may answer for item i
    tokenServer,            \* replies the token endpoint may give
    max_rate_limit_retries, \* FitbitAPIClient.max_rate_limit_retries
    rate_limit_attempts,    \* request: local rate_limit_attempts
    retry_auth,             \* request: local retry_auth
    response,               \* request: status code of the last response (0: none yet)
    sentToken,              \* access token carried by the last send
    sends,                  \* HTTP sends of the running logical request
    sleeps,                 \* calls of _sleep in the running logical request
    forced,                 \* refresh_access_token(force=True) calls in the running request
    seen401,                \* 401 responses received by the running logical request
    seen429,                \* 429 responses received by the running logical request
    requested,              \* items for which a track request was sent in this call
    written,                \* items whose destination file was written in this call
    initialDownloaded,      \* items whose flag was set when this call began
    failedItems,            \* items counted as failed in this call
    saves,                  \* calls of save_plan made by this call of download_plan
    posts,                  \* token-endpoint POSTs of the running logical request
    headerChoices,          \* header sets a 429 response of the track endpoint may carry
    callerHeaders,          \* request parameter: headers, as passed by the caller
    lastHeaders,            \* headers of the 429 response the last delay was computed from
    delay,                  \* seconds passed to the last _sleep of the running request (0: none)
    granted,                \* payload of the last successful token-endpoint reply
    activityChoices,        \* activity records a file under activities_dir may hold
    activityLimit,          \* most activities the files under activities_dir hold in all
    existing,               \* destination paths that exist on disk
    shardNo,                \* collect_plan: position of `for json_file in sorted(...)`
    recNo,                  \* collect_plan: activities of the current file looked at so far
    scanned,                \* collect_plan: every activity looked at so far, in scan order
    collected,              \* collect_plan: items, the plan being built
    seen_urls,              \* collect_plan: seen_urls
    loaded,                 \* main: the plan returned by load_plan
    filePayload,            \* collect_plan: what json.loads gave for the file being read
    shardChoices,           \* the files of SortedShardPaths that may lie under activities_dir
    tokenDoc,               \* tokens.py: the JSON document on disk at the token path
    originalDoc,            \* the document that was at the token path before any write
    tokenObj,               \* tokens.py: the TokenData in memory
    startup,                \* FitbitAPIClient.__init__: how load_token_file ended
    now,                    \* datetime.now(tz=UTC), in seconds
    verdict,                \* will_expire_within: delta and result of the last call made at `now`
    serverPages,            \* the pages of the activity-list endpoint: batch size and next link
    page_size,              \* iter_activities parameter
    iterState,              \* position inside the generator iter_activities
    pageNo,                 \* iter_activities: page_url, as the number of the page it names
    batchPos,               \* iter_activities: activities of the current batch yielded so far
    yielded,                \* activities yielded by the running/last iteration, in order
    fetched,                \* pages requested by the running/last iteration, in order
    _last_request_count,    \* FitbitActivityFetcher._last_request_count
    traffic,                \* HTTP exchanges (sends, token POSTs) of the running/last iteration
    iterationsLeft,         \* iterations still to be started on this fetcher
    recordChoices,          \* activity records the iterable given to the bucketing may hold
    recordLimit,            \* most records that iterable holds
    consumed,               \* bucket_activities_by_month: records taken from the iterable
    buckets,                \* bucket_activities_by_month: buckets
    skipped,                \* bucket_activities_by_month: skipped
    bucketing,              \* how far bucket_activities_by_month is, or the error that ended it
    tool,                   \* which command-line tool runs, and how far its main is
    args,                   \* argparse namespace of the running tool
    sources,                \* the input track files found under the input directory
    outputs,                \* what lies at the output path of each conversion, or of the merge
    results,                \* what the tool got from each input file handled so far
    exit_code               \* exit code of the process, once it has ended

vars == <<items, planFile, plan_path, dry_run, summary, prevSummary, idx, pc, runsLeft,
          token, tokenFile, credentials, expiring, server, tokenServer,
          max_rate_limit_retries, rate_limit_attempts, retry_auth, response, sentToken,
          sends, sleeps, forced, seen401, seen429, requested, written, initialDownloaded,
          failedItems, saves, posts, headerChoices, callerHeaders, lastHeaders, delay,
          granted, activityChoices, activityLimit, existing, shardNo, recNo, scanned,
          collected, seen_urls, loaded, filePayload, shardChoices, tokenDoc,
          originalDoc, tokenObj, startup, now,
          verdict, serverPages, page_size, iterState, pageNo, batchPos, yielded, fetched,
          _last_request_count, traffic, iterationsLeft, recordChoices, recordLimit,
          consumed, buckets, skipped, bucketing, tool, args, sources, outputs, results,
          exit_code>>

\* the token helpers of tokens.py, exercised on their own
tokenStoreVars == <<tokenDoc, originalDoc, tokenObj, startup, now, verdict>>

\* the activity fetcher of activity.py
fetchVars == <<serverPages, page_size, iterState, pageNo, batchPos, yielded, fetched,
               _last_request_count, traffic, iterationsLeft>>

\* the month bucketing of dump_utils.py
bucketVars == <<recordChoices, recordLimit, consumed, buckets, skipped, bucketing>>

\* the command-line tools: tcx-to-kml.py, merge-kml.py and main of download-tcx.py
toolVars == <<tool, args, sources, outputs, results, exit_code>>

\* the helper modules and tools that no step of download_plan or collect_plan touches
libraryVars == <<tokenStoreVars, fetchVars, bucketVars, toolVars>>

\* the client, the downloader and the scan of collect_plan
coreVars ==
    <<items, planFile, plan_path, dry_run, summary, prevSummary, idx, pc, runsLeft, token,
      tokenFile, credentials, expiring, server, tokenServer, max_rate_limit_retries,
      rate_limit_attempts, retry_auth, response, sentToken, sends, sleeps, forced, seen401,
      seen429, requested, written, initialDownloaded, failedItems, saves, posts,
      headerChoices, callerHeaders, lastHeaders, delay, granted, activityChoices,
      activityLimit, existing, shardNo, recNo, scanned, collected, seen_urls, loaded,
      filePayload, shardChoices>>

\* the client, the downloader and the tools, which the helper modules leave alone
programVars == <<coreVars, toolVars>>

\* the activities directory, the output directory, collect_plan and load_plan
directoryVars ==
    <<activityChoices, activityLimit, existing, shardNo, recNo, scanned, collected,
      seen_urls, loaded, filePayload, shardChoices>>

\* what download_plan and request leave alone
scanVars == <<directoryVars, libraryVars>>

---------------------------------------------------------------------------
(* Bounds *)

MaxItems == 3           \* longest plan of Spec
MaxRetries == 1         \* largest configured max_rate_limit_retries of Spec
TwiceItems == 2         \* longest plan of SpecTwice
TokenIds == 2           \* distinct access tokens the token endpoint hands out in turn
BackoffRetries == 7     \* max_rate_limit_retries of SpecDelay
MaxActivities == 3      \* most activities under activities_dir in SpecCollect
MaxLinkRecords == 2     \* most activities under activities_dir in SpecLinks

(* Program constants *)

DefaultMaxRetries == 5  \* max_rate_limit_retries: int = 5
MinDelay == 1           \* max(1.0, ...): shortest delay after a 429, in seconds
MaxBackoff == 60        \* min(60.0, ...): longest exponential backoff, in seconds

retry_on_unauthorized == TRUE   \* request(..., retry_on_unauthorized: bool = True)

Statuses == {200, 401, 429, 500}

---------------------------------------------------------------------------
(* Plan items and the plan document *)

Indices == 1..Len(items)

\* TCXDownloadItem(url, path, downloaded); item i of a plan has url i and path i
TCXDownloadItem(u, p, d) == [url |-> u, path |-> p, downloaded |-> d]

\* all plans of exactly n items, every combination of flags
PlansOfLen(n) ==
    { [i \in 1..n |-> TCXDownloadItem(i, i, f[i])] : f \in [1..n -> BOOLEAN] }

PlansUpTo(n) == UNION { PlansOfLen(k) : k \in 0..n }

\* variant: the flag is written under another name
to_dict_flag_renamed(item) == [url |-> item.url, path |-> item.path, done |-> item.downloaded]

\* TCXDownloadItem.to_dict
to_dict(item) == [url |-> item.url, path |-> item.path, downloaded |-> item.downloaded]

\* variant: only the items already downloaded are written
save_plan_downloaded_only(plan) ==
    LET kept == SelectSeq(plan, LAMBDA item : item.downloaded)
    IN  [i \in 1..Len(kept) |-> to_dict(kept[i])]

\* save_plan: the document is the list of to_dict(item), in plan order
save_plan(plan) == [i \in 1..Len(plan) |-> to_dict(plan[i])]

DownloadedSet(plan) == { i \in 1..Len(plan) : plan[i].downloaded }

\* TCXDownloadSummary(total_items=n)
TCXDownloadSummary(n) ==
    [total_items |-> n, downloaded |-> 0, already_downloaded |-> 0,
     failed |-> 0, dry_run_listed |-> 0]

---------------------------------------------------------------------------
(* Tokens *)

TokenData(a, r, e) == [access_token |-> a, refresh_token |-> r, has_expiry |-> e]

\* TokenData.will_expire_within: False without expires_at, else expires_at <= now + delta
will_expire_within(tok, soon) == IF ~tok.has_expiry THEN FALSE ELSE soon

\* write_token_file: the document holds the token's fields
write_token_file(tok) ==
    [access_token |-> tok.access_token, refresh_token |-> tok.refresh_token,
     has_expiry |-> tok.has_expiry]

\* replies of the token endpoint: an error status, or a payload with a new access
\* token, with or without a refresh_token, whose expiry is soon or later
ErrorReply == [ok |-> FALSE, refresh_token |-> FALSE, soon |-> FALSE]
TokenReplies ==
    {ErrorReply} \cup [ok : {TRUE}, refresh_token : BOOLEAN, soon : BOOLEAN]

NextAccessToken(a) == (a % TokenIds) + 1

\* variant: without client credentials only a forced refresh is an error
refresh_access_token_lenient(tok, creds, force, reply) ==
    IF ~tok.refresh_token \/ (~creds /\ ~force)
    THEN [outcome |-> IF force THEN "raised" ELSE "skipped", posted |-> FALSE,
          token |-> tok, soon |-> FALSE]
    ELSE IF ~creds
    THEN [outcome |-> "raised", posted |-> FALSE, token |-> tok, soon |-> FALSE]
    ELSE IF ~reply.ok
    THEN [outcome |-> "raised", posted |-> TRUE, token |-> tok, soon |-> FALSE]
    ELSE [outcome |-> "refreshed", posted |-> TRUE,
          token |-> TokenData(NextAccessToken(tok.access_token), reply.refresh_token, TRUE),
          soon |-> reply.soon]

\* variant: a payload without refresh_token leaves the stored refresh token in place
refresh_access_token_merging(tok, creds, force, reply) ==
    IF ~tok.refresh_token
    THEN [outcome |-> IF force THEN "raised" ELSE "skipped", posted |-> FALSE,
          token |-> tok, soon |-> FALSE]
    ELSE IF ~creds
    THEN [outcome |-> "raised", posted |-> FALSE, token |-> tok, soon |-> FALSE]
    ELSE IF ~reply.ok
    THEN [outcome |-> "raised", posted |-> TRUE, token |-> tok, soon |-> FALSE]
    ELSE [outcome |-> "refreshed", posted |-> TRUE,
          token |-> TokenData(NextAccessToken(tok.access_token),
                              reply.refresh_token \/ tok.refresh_token, TRUE),
          soon |-> reply.soon]

\* variant: a missing refresh token is an error whether or not the refresh is forced
refresh_access_token_strict(tok, creds, force, reply) ==
    IF ~tok.refresh_token \/ ~creds
    THEN [outcome |-> "raised", posted |-> FALSE, token |-> tok, soon |-> FALSE]
    ELSE IF ~reply.ok
    THEN [outcome |-> "raised", posted |-> TRUE, token |-> tok, soon |-> FALSE]
    ELSE [outcome |-> "refreshed", posted |-> TRUE,
          token |-> TokenData(NextAccessToken(tok.access_token), reply.refresh_token, TRUE),
          soon |-> reply.soon]

\* refresh_access_token(force): what one call does with the endpoint's reply
refresh_access_token(tok, creds, force, reply) ==
    IF ~tok.refresh_token
    THEN [outcome |-> IF force THEN "raised" ELSE "skipped", posted |-> FALSE,
          token |-> tok, soon |-> FALSE]
    ELSE IF ~creds
    THEN [outcome |-> "raised", posted |-> FALSE, token |-> tok, soon |-> FALSE]
    ELSE IF ~reply.ok
    THEN [outcome |-> "raised", posted |-> TRUE, token |-> tok, soon |-> FALSE]
    ELSE [outcome |-> "refreshed", posted |-> TRUE,
          token |-> TokenData(NextAccessToken(tok.access_token), reply.refresh_token, TRUE),
          soon |-> reply.soon]

\* the token endpoint's payload of a successful reply to a client holding tok
Payload(tok, reply) ==
    [ok |-> TRUE, access_token |-> NextAccessToken(tok.access_token),
     refresh_token |-> reply.refresh_token]

NoGrant == [ok |-> FALSE, access_token |-> 0, refresh_token |-> FALSE]

\* load_token_file: TokenData.from_dict of the document
load_token_file(doc) == TokenData(doc.access_token, doc.refresh_token, doc.has_expiry)

---------------------------------------------------------------------------
(* Headers *)

\* dict.update: the entries of d2 replace and extend those of d1
update(d1, d2) ==
    [k \in DOMAIN d1 \cup DOMAIN d2 |-> IF k \in DOMAIN d2 THEN d2[k] ELSE d1[k]]

\* variant: the caller's headers are applied after the Authorization header
merged_headers_caller_last(headers, access_token) ==
    update(update([k \in {"Accept"} |-> "application/json"],
                  [k \in {"Authorization"} |-> access_token]),
           headers)

\* request: merged_headers, the defaults, then the caller's, then Authorization
merged_headers(headers, access_token) ==
    update(update([k \in {"Accept"} |-> "application/json"], headers),
           [k \in {"Authorization"} |-> access_token])

\* download_tcx: headers={"Accept": "application/vnd.garmin.tcx+xml"}
TcxHeaders == [k \in {"Accept"} |-> "application/vnd.garmin.tcx+xml"]

\* an access token that is not the client's, supplied by a caller of request
CallerToken == 0 - 1

\* a caller that passes an Authorization header of its own
OwnAuthorizationHeaders == update(TcxHeaders, [k \in {"Authorization"} |-> CallerToken])

\* texts a rate-limit header may hold: empty, not a number, and numbers of seconds
HeaderTexts == {"", "soon", "0", "2", "90"}

RateLimitHeaderNames == {"Retry-After", "Fitbit-Rate-Limit-Reset"}

\* headers of a 429 response: each rate-limit header is absent or holds one of the texts
RateLimitHeaders ==
    UNION { [names -> HeaderTexts] : names \in SUBSET RateLimitHeaderNames }

NoHeaders == [k \in {} |-> ""]

\* float(text) succeeds on the texts that spell a number
Floats == {"0", "2", "90"}
float(text) == CASE text = "0" -> 0 [] text = "2" -> 2 [] text = "90" -> 90

Max(a, b) == IF a >= b THEN a ELSE b

RECURSIVE Pow2(_)
Pow2(k) == IF k = 0 THEN 1 ELSE 2 * Pow2(k - 1)

\* `if value:` on headers.get(name): the header is there and its text is not empty
Truthy(headers, name) == name \in DOMAIN headers /\ headers[name] # ""

\* variant: the backoff is not capped
_rate_limit_delay_uncapped(headers, attempt) ==
    IF Truthy(headers, "Retry-After") /\ headers["Retry-After"] \in Floats
    THEN Max(MinDelay, float(headers["Retry-After"]))
    ELSE IF Truthy(headers, "Fitbit-Rate-Limit-Reset")
            /\ headers["Fitbit-Rate-Limit-Reset"] \in Floats
    THEN Max(MinDelay, float(headers["Fitbit-Rate-Limit-Reset"]))
    ELSE Max(MinDelay, Pow2(attempt))

\* _rate_limit_delay, in whole seconds
_rate_limit_delay(headers, attempt) ==
    IF Truthy(headers, "Retry-After") /\ headers["Retry-After"] \in Floats
    THEN Max(MinDelay, float(headers["Retry-After"]))
    ELSE IF Truthy(headers, "Fitbit-Rate-Limit-Reset")
            /\ headers["Fitbit-Rate-Limit-Reset"] \in Floats
    THEN Max(MinDelay, float(headers["Fitbit-Rate-Limit-Reset"]))
    ELSE LET backoff == Max(MinDelay, Pow2(attempt))
         IN  IF backoff <= MaxBackoff THEN backoff ELSE MaxBackoff

---------------------------------------------------------------------------
(* Initial states *)

\* a client right after construction (token loaded from token_path), before its first
\* call of download_plan
ClientStarts(retries, serverChoices, tokenServers, dryRuns, runs) ==
    /\ plan_path \in BOOLEAN
    /\ dry_run \in dryRuns
    /\ summary = TCXDownloadSummary(0)
    /\ prevSummary = TCXDownloadSummary(0)
    /\ idx = 0
    /\ pc = "idle"
    /\ runsLeft = runs
    /\ token \in { TokenData(0, r, e) : r \in BOOLEAN, e \in BOOLEAN }
    /\ tokenFile = write_token_file(token)
    /\ credentials \in BOOLEAN
    /\ expiring \in (IF token.has_expiry THEN BOOLEAN ELSE {FALSE})
    /\ server \in serverChoices
    /\ tokenServer \in tokenServers
    /\ max_rate_limit_retries \in retries
    /\ rate_limit_attempts = 0
    /\ retry_auth = retry_on_unauthorized
    /\ response = 0
    /\ sentToken = 0
    /\ sends = 0
    /\ sleeps = 0
    /\ forced = 0
    /\ seen401 = 0
    /\ seen429 = 0
    /\ requested = {}
    /\ written = {}
    /\ initialDownloaded = {}
    /\ failedItems = {}
    /\ saves = 0
    /\ posts = 0
    /\ lastHeaders = NoHeaders
    /\ delay = 0
    /\ granted = NoGrant

\* such a client holding a plan that was just loaded from, or saved to, the plan document
\* (download-tcx.py main)
InitWith(plans, retries, servers(_), tokenServers, dryRuns, runs) ==
    /\ items \in plans
    /\ planFile = save_plan(items)
    /\ ClientStarts(retries, servers(Len(items)), tokenServers, dryRuns, runs)

\* a server free to answer every send with any status
FreeServers(n) == { [i \in 1..n |-> Statuses] }

\* a server with unchanging behaviour: one fixed status per item
FixedServers(n) == { [i \in 1..n |-> {f[i]}] : f \in [1..n -> Statuses] }

\* the token helpers are not exercised on their own
NoTokenStore ==
    /\ tokenDoc = <<>>
    /\ originalDoc = <<>>
    /\ tokenObj = <<>>
    /\ startup = "unused"
    /\ now = 0
    /\ verdict = <<>>

\* no activity is fetched
NoFetch ==
    /\ serverPages = <<>>
    /\ page_size = 0
    /\ iterState = "unused"
    /\ pageNo = 0
    /\ batchPos = 0
    /\ yielded = <<>>
    /\ fetched = <<>>
    /\ _last_request_count = 0
    /\ traffic = 0
    /\ iterationsLeft = 0

\* no activity is bucketed
NoBuckets ==
    /\ recordChoices = {}
    /\ recordLimit = 0
    /\ consumed = <<>>
    /\ buckets = <<>>
    /\ skipped = 0
    /\ bucketing = "unused"

\* no command-line tool runs
NoTool ==
    /\ tool = <<"none", "unused">>
    /\ args = <<>>
    /\ sources = <<>>
    /\ outputs = <<>>
    /\ results = <<>>
    /\ exit_code = 0

LibraryAtRest ==
    /\ NoTokenStore
    /\ NoFetch
    /\ NoBuckets
    /\ NoTool

\* download_tcx is the caller of request, and 429 responses carry no rate-limit header
PlainClient ==
    /\ headerChoices = {NoHeaders}
    /\ callerHeaders = TcxHeaders

\* the plan is in hand: collect_plan and load_plan are not called
NoScan ==
    /\ activityChoices = {}
    /\ activityLimit = 0
    /\ existing = {}
    /\ shardNo = 0
    /\ recNo = 0
    /\ scanned = <<>>
    /\ collected = <<>>
    /\ seen_urls = {}
    /\ loaded = <<>>
    /\ filePayload = ""
    /\ shardChoices = {}

Init ==
    /\ InitWith(PlansUpTo(MaxItems), 0..MaxRetries, FreeServers, {TokenReplies}, BOOLEAN, 1)
    /\ PlainClient
    /\ NoScan
    /\ LibraryAtRest

---------------------------------------------------------------------------
(* download_plan *)

\* variant: the dry_run parameter is ignored
DownloadPlanBeginIgnoresDryRun ==
    /\ pc \in {"idle", "done"}
    /\ runsLeft > 0
    /\ runsLeft' = runsLeft - 1
    /\ prevSummary' = summary
    /\ initialDownloaded' = DownloadedSet(items)
    /\ requested' = {}
    /\ written' = {}
    /\ failedItems' = {}
    /\ saves' = 0
    /\ posts' = 0
    /\ summary' = TCXDownloadSummary(Len(items))
    /\ pc' = "loop"
    /\ idx' = 1
    /\ UNCHANGED <<items, planFile, plan_path, dry_run, token, tokenFile, credentials,
                   expiring, server, tokenServer, max_rate_limit_retries,
                   rate_limit_attempts, retry_auth, response, sentToken, sends, sleeps,
                   forced, seen401, seen429,
                   headerChoices, callerHeaders, lastHeaders, delay, granted, scanVars>>

\* download_plan entry: items = list(plan), the summary, and the dry-run branch
DownloadPlanBegin ==
    /\ pc \in {"idle", "done"}
    /\ runsLeft > 0
    /\ runsLeft' = runsLeft - 1
    /\ prevSummary' = summary
    /\ initialDownloaded' = DownloadedSet(items)
    /\ requested' = {}
    /\ written' = {}
    /\ failedItems' = {}
    /\ saves' = 0
    /\ posts' = 0
    /\ IF dry_run
       THEN /\ summary' = [TCXDownloadSummary(Len(items)) EXCEPT
                              !.dry_run_listed = Cardinality(Indices \ DownloadedSet(items)),
                              !.already_downloaded = Cardinality(DownloadedSet(items))]
            /\ pc' = "done"
            /\ idx' = 0
       ELSE /\ summary' = TCXDownloadSummary(Len(items))
            /\ pc' = "loop"
            /\ idx' = 1
    /\ UNCHANGED <<items, planFile, plan_path, dry_run, token, tokenFile, credentials,
                   expiring, server, tokenServer, max_rate_limit_retries,
                   rate_limit_attempts, retry_auth, response, sentToken, sends, sleeps,
                   forced, seen401, seen429,
                   headerChoices, callerHeaders, lastHeaders, delay, granted, scanVars>>

\* variant: an item that is already downloaded is passed over without being counted
SkipDownloadedUncounted ==
    /\ pc = "loop"
    /\ idx \in Indices
    /\ items[idx].downloaded
    /\ idx' = idx + 1
    /\ UNCHANGED <<items, planFile, plan_path, dry_run, summary, prevSummary, pc, runsLeft,
                   token, tokenFile, credentials, expiring, server, tokenServer,
                   max_rate_limit_retries, rate_limit_attempts, retry_auth, response,
                   sentToken, sends, sleeps, forced, seen401, seen429, requested, written,
                   initialDownloaded, failedItems, saves, posts,
                   headerChoices, callerHeaders, lastHeaders, delay, granted, scanVars>>

\* `if item.downloaded: summary.already_downloaded += 1; continue`
SkipDownloaded ==
    /\ pc = "loop"
    /\ idx \in Indices
    /\ items[idx].downloaded
    /\ summary' = [summary EXCEPT !.already_downloaded = @ + 1]
    /\ idx' = idx + 1
    /\ UNCHANGED <<items, planFile, plan_path, dry_run, prevSummary, pc, runsLeft, token,
                   tokenFile, credentials, expiring, server, tokenServer,
                   max_rate_limit_retries, rate_limit_attempts, retry_auth, response,
                   sentToken, sends, sleeps, forced, seen401, seen429, requested, written,
                   initialDownloaded,
                   failedItems, saves, posts,
                   headerChoices, callerHeaders, lastHeaders, delay, granted, scanVars>>

\* download_tcx(item.url) enters request: rate_limit_attempts = 0,
\* retry_auth = retry_on_unauthorized (the parent directory of item.path is made first)
StartRequest ==
    /\ rate_limit_attempts' = 0
    /\ retry_auth' = retry_on_unauthorized
    /\ response' = 0
    /\ sends' = 0
    /\ sleeps' = 0
    /\ forced' = 0
    /\ seen401' = 0
    /\ seen429' = 0
    /\ posts' = 0
    /\ delay' = 0
    /\ lastHeaders' = NoHeaders
    /\ pc' = "fresh"
    /\ UNCHANGED <<items, planFile, plan_path, dry_run, summary, prevSummary, idx,
                   runsLeft, token, tokenFile, credentials, expiring, server, tokenServer,
                   max_rate_limit_retries, sentToken, requested, written,
                   initialDownloaded, failedItems, saves,
                   headerChoices, callerHeaders, granted, scanVars>>

\* variant: the downloaded flag is not looked at before fetching
StartItemUnchecked ==
    /\ pc = "loop"
    /\ idx \in Indices
    /\ StartRequest

\* an item that is not downloaded yet is fetched
StartItem ==
    /\ pc = "loop"
    /\ idx \in Indices
    /\ ~items[idx].downloaded
    /\ StartRequest

\* variant: the error is counted and the run ends
ItemFailedAborts ==
    /\ pc = "raised"
    /\ summary' = [summary EXCEPT !.failed = @ + 1]
    /\ failedItems' = failedItems \cup {idx}
    /\ pc' = "done"
    /\ UNCHANGED <<items, planFile, plan_path, dry_run, prevSummary, idx, runsLeft, token,
                   tokenFile, credentials, expiring, server, tokenServer,
                   max_rate_limit_retries, rate_limit_attempts, retry_auth, response,
                   sentToken, sends, sleeps, forced, seen401, seen429, requested, written,
                   initialDownloaded, saves, posts,
                   headerChoices, callerHeaders, lastHeaders, delay, granted, scanVars>>

\* `except FitbitAPIError: summary.failed += 1; continue`
ItemFailed ==
    /\ pc = "raised"
    /\ summary' = [summary EXCEPT !.failed = @ + 1]
    /\ failedItems' = failedItems \cup {idx}
    /\ idx' = idx + 1
    /\ pc' = "loop"
    /\ UNCHANGED <<items, planFile, plan_path, dry_run, prevSummary, runsLeft, token,
                   tokenFile, credentials, expiring, server, tokenServer,
                   max_rate_limit_retries, rate_limit_attempts, retry_auth, response,
                   sentToken, sends, sleeps, forced, seen401, seen429, requested, written,
                   initialDownloaded,
                   saves, posts,
                   headerChoices, callerHeaders, lastHeaders, delay, granted, scanVars>>

\* `path_obj.write_bytes(content)`
WriteFile ==
    /\ pc = "write"
    /\ written' = written \cup {items[idx].path}
    /\ pc' = "flag"
    /\ UNCHANGED <<items, planFile, plan_path, dry_run, summary, prevSummary, idx,
                   runsLeft, token, tokenFile, credentials, expiring, server, tokenServer,
                   max_rate_limit_retries, rate_limit_attempts, retry_auth, response,
                   sentToken, sends, sleeps, forced, seen401, seen429, requested,
                   initialDownloaded,
                   failedItems, saves, posts,
                   headerChoices, callerHeaders, lastHeaders, delay, granted, scanVars>>

\* variant: the download is counted but the item's flag is left as it was
MarkDownloadedCountsOnly ==
    /\ pc = "flag"
    /\ summary' = [summary EXCEPT !.downloaded = @ + 1]
    /\ pc' = "save"
    /\ UNCHANGED <<items, planFile, plan_path, dry_run, prevSummary, idx, runsLeft, token,
                   tokenFile, credentials, expiring, server, tokenServer,
                   max_rate_limit_retries, rate_limit_attempts, retry_auth, response,
                   sentToken, sends, sleeps, forced, seen401, seen429, requested, written,
                   initialDownloaded, failedItems, saves, posts,
                   headerChoices, callerHeaders, lastHeaders, delay, granted, scanVars>>

\* `item.downloaded = True; summary.downloaded += 1`
MarkDownloaded ==
    /\ pc = "flag"
    /\ items' = [items EXCEPT ![idx].downloaded = TRUE]
    /\ summary' = [summary EXCEPT !.downloaded = @ + 1]
    /\ pc' = "save"
    /\ UNCHANGED <<planFile, plan_path, dry_run, prevSummary, idx, runsLeft, token,
                   tokenFile, credentials, expiring, server, tokenServer,
                   max_rate_limit_retries, rate_limit_attempts, retry_auth, response,
                   sentToken, sends, sleeps, forced, seen401, seen429, requested, written,
                   initialDownloaded,
                   failedItems, saves, posts,
                   headerChoices, callerHeaders, lastHeaders, delay, granted, scanVars>>

\* variant: the checkpoint is written only after the last item of the plan
SavePlanAtEnd ==
    /\ pc = "save"
    /\ planFile' = IF plan_path /\ idx = Len(items) THEN save_plan(items) ELSE planFile
    /\ saves' = IF plan_path /\ idx = Len(items) THEN saves + 1 ELSE saves
    /\ idx' = idx + 1
    /\ pc' = "loop"
    /\ UNCHANGED <<items, plan_path, dry_run, summary, prevSummary, runsLeft, token,
                   tokenFile, credentials, expiring, server, tokenServer,
                   max_rate_limit_retries, rate_limit_attempts, retry_auth, response,
                   sentToken, sends, sleeps, forced, seen401, seen429, requested, written,
                   initialDownloaded, failedItems, posts,
                   headerChoices, callerHeaders, lastHeaders, delay, granted, scanVars>>

\* variant: the checkpoint records the item just downloaded on top of the plan as it
\* was when the call began, forgetting the items downloaded before it
SavePlanCurrentOnly ==
    /\ pc = "save"
    /\ planFile' = IF plan_path
                   THEN [i \in Indices |->
                           [to_dict(items[i]) EXCEPT
                              !.downloaded = (i = idx \/ i \in initialDownloaded)]]
                   ELSE planFile
    /\ saves' = IF plan_path THEN saves + 1 ELSE saves
    /\ idx' = idx + 1
    /\ pc' = "loop"
    /\ UNCHANGED <<items, plan_path, dry_run, summary, prevSummary, runsLeft, token,
                   tokenFile, credentials, expiring, server, tokenServer,
                   max_rate_limit_retries, rate_limit_attempts, retry_auth, response,
                   sentToken, sends, sleeps, forced, seen401, seen429, requested, written,
                   initialDownloaded, failedItems, posts,
                   headerChoices, callerHeaders, lastHeaders, delay, granted, scanVars>>

\* `if plan_path_obj: save_plan(items, plan_path_obj)`, then the next item
SavePlan ==
    /\ pc = "save"
    /\ planFile' = IF plan_path THEN save_plan(items) ELSE planFile
    /\ saves' = IF plan_path THEN saves + 1 ELSE saves
    /\ idx' = idx + 1
    /\ pc' = "loop"
    /\ UNCHANGED <<items, plan_path, dry_run, summary, prevSummary, runsLeft, token,
                   tokenFile, credentials, expiring, server, tokenServer,
                   max_rate_limit_retries, rate_limit_attempts, retry_auth, response,
                   sentToken, sends, sleeps, forced, seen401, seen429, requested, written,
                   initialDownloaded,
                   failedItems, posts,
                   headerChoices, callerHeaders, lastHeaders, delay, granted, scanVars>>

\* the loop is exhausted: `return summary`
Finish ==
    /\ pc = "loop"
    /\ idx > Len(items)
    /\ pc' = "done"
    /\ UNCHANGED <<items, planFile, plan_path, dry_run, summary, prevSummary, idx,
                   runsLeft, token, tokenFile, credentials, expiring, server, tokenServer,
                   max_rate_limit_retries, rate_limit_attempts, retry_auth, response,
                   sentToken, sends, sleeps, forced, seen401, seen429, requested, written,
                   initialDownloaded,
                   failedItems, saves, posts,
                   headerChoices, callerHeaders, lastHeaders, delay, granted, scanVars>>

---------------------------------------------------------------------------
(* FitbitAPIClient.request *)

\* variant: the retry bound is tested with <= instead of <
BranchOneMoreRetry(status, retryAuth, attempts, maxRetries) ==
    IF status = 401 /\ retryAuth THEN "refresh"
    ELSE IF status = 429 /\ attempts <= maxRetries THEN "sleep"
    ELSE IF status >= 400 THEN "raise"
    ELSE "return"

\* variant: server errors are retried like rate limits
BranchRetriesServerErrors(status, retryAuth, attempts, maxRetries) ==
    IF status = 401 /\ retryAuth THEN "refresh"
    ELSE IF (status = 429 \/ status >= 500) /\ attempts < maxRetries THEN "sleep"
    ELSE IF status >= 400 THEN "raise"
    ELSE "return"

\* the branch request takes on a response, tested in the order of the code
Branch(status, retryAuth, attempts, maxRetries) ==
    IF status = 401 /\ retryAuth THEN "refresh"
    ELSE IF status = 429 /\ attempts < maxRetries THEN "sleep"
    ELSE IF status >= 400 THEN "raise"
    ELSE "return"

\* variant: a refresh that raises leaves the client without its refresh token
EnsureFreshTokenForgetsOnError ==
    /\ pc = "fresh"
    /\ \E elapsed \in BOOLEAN, reply \in tokenServer :
        LET soon == token.has_expiry /\ (expiring \/ elapsed)
            r    == refresh_access_token(token, credentials, FALSE, reply)
        IN  IF ~will_expire_within(token, soon)
            THEN /\ pc' = "send"
                 /\ UNCHANGED <<token, tokenFile, expiring, posts, granted>>
            ELSE CASE r.outcome = "skipped" ->
                        /\ pc' = "send"
                        /\ expiring' = soon
                        /\ posts' = IF r.posted THEN posts + 1 ELSE posts
                        /\ UNCHANGED <<token, tokenFile, granted>>
                   [] r.outcome = "raised" ->
                        /\ pc' = "raised"
                        /\ expiring' = soon
                        /\ posts' = IF r.posted THEN posts + 1 ELSE posts
                        /\ token' = TokenData(token.access_token, FALSE, token.has_expiry)
                        /\ tokenFile' = write_token_file(token')
                        /\ UNCHANGED granted
                   [] r.outcome = "refreshed" ->
                        /\ pc' = "send"
                        /\ token' = r.token
                        /\ tokenFile' = write_token_file(r.token)
                        /\ granted' = Payload(token, reply)
                        /\ expiring' = r.soon
                        /\ posts' = posts + 1
    /\ UNCHANGED <<items, planFile, plan_path, dry_run, summary, prevSummary, idx,
                   runsLeft, credentials, server, tokenServer, max_rate_limit_retries,
                   rate_limit_attempts, retry_auth, response, sentToken, sends, sleeps,
                   forced, seen401, seen429, requested, written, initialDownloaded,
                   failedItems, saves,
                   headerChoices, callerHeaders, lastHeaders, delay, scanVars>>

\* variant: the refreshed token is kept in memory and not written to the token file
EnsureFreshTokenKeepsFile ==
    /\ pc = "fresh"
    /\ \E elapsed \in BOOLEAN, reply \in tokenServer :
        LET soon == token.has_expiry /\ (expiring \/ elapsed)
            r    == refresh_access_token(token, credentials, FALSE, reply)
        IN  IF ~will_expire_within(token, soon)
            THEN /\ pc' = "send"
                 /\ UNCHANGED <<token, tokenFile, expiring, posts, granted>>
            ELSE CASE r.outcome = "skipped" ->
                        /\ pc' = "send"
                        /\ expiring' = soon
                        /\ posts' = IF r.posted THEN posts + 1 ELSE posts
                        /\ UNCHANGED <<token, tokenFile, granted>>
                   [] r.outcome = "raised" ->
                        /\ pc' = "raised"
                        /\ expiring' = soon
                        /\ posts' = IF r.posted THEN posts + 1 ELSE posts
                        /\ UNCHANGED <<token, tokenFile, granted>>
                   [] r.outcome = "refreshed" ->
                        /\ pc' = "send"
                        /\ token' = r.token
                        /\ tokenFile' = tokenFile
                        /\ granted' = Payload(token, reply)
                        /\ expiring' = r.soon
                        /\ posts' = posts + 1
    /\ UNCHANGED <<items, planFile, plan_path, dry_run, summary, prevSummary, idx,
                   runsLeft, credentials, server, tokenServer, max_rate_limit_retries,
                   rate_limit_attempts, retry_auth, response, sentToken, sends, sleeps,
                   forced, seen401, seen429, requested, written, initialDownloaded,
                   failedItems, saves,
                   headerChoices, callerHeaders, lastHeaders, delay, scanVars>>

\* top of `while True`: _ensure_fresh_token(), a refresh without force when the token
\* will expire within a minute. Time may have passed since the clock was last read.
EnsureFreshToken ==
    /\ pc = "fresh"
    /\ \E elapsed \in BOOLEAN, reply \in tokenServer :
        LET soon == token.has_expiry /\ (expiring \/ elapsed)
            r    == refresh_access_token(token, credentials, FALSE, reply)
        IN  IF ~will_expire_within(token, soon)
            THEN /\ pc' = "send"
                 /\ UNCHANGED <<token, tokenFile, expiring, posts, granted>>
            ELSE CASE r.outcome = "skipped" ->
                        /\ pc' = "send"
                        /\ expiring' = soon
                        /\ posts' = IF r.posted THEN posts + 1 ELSE posts
                        /\ UNCHANGED <<token, tokenFile, granted>>
                   [] r.outcome = "raised" ->
                        /\ pc' = "raised"
                        /\ expiring' = soon
                        /\ posts' = IF r.posted THEN posts + 1 ELSE posts
                        /\ UNCHANGED <<token, tokenFile, granted>>
                   [] r.outcome = "refreshed" ->
                        /\ pc' = "send"
                        /\ token' = r.token
                        /\ tokenFile' = write_token_file(r.token)
                        /\ granted' = Payload(token, reply)
                        /\ expiring' = r.soon
                        /\ posts' = posts + 1
    /\ UNCHANGED <<items, planFile, plan_path, dry_run, summary, prevSummary, idx,
                   runsLeft, credentials, server, tokenServer, max_rate_limit_retries,
                   rate_limit_attempts, retry_auth, response, sentToken, sends, sleeps,
                   forced, seen401, seen429, requested, written, initialDownloaded,
                   failedItems, saves,
                   headerChoices, callerHeaders, lastHeaders, delay, scanVars>>

\* `session.request(...)` with `Authorization: Bearer <access_token>`; the server answers
Send ==
    /\ pc = "send"
    /\ \E status \in server[idx] :
        /\ response' = status
        /\ seen401' = IF status = 401 THEN seen401 + 1 ELSE seen401
        /\ seen429' = IF status = 429 THEN seen429 + 1 ELSE seen429
    /\ sentToken' = merged_headers(callerHeaders, token.access_token)["Authorization"]
    /\ sends' = sends + 1
    /\ requested' = requested \cup {idx}
    /\ pc' = "response"
    /\ UNCHANGED <<items, planFile, plan_path, dry_run, summary, prevSummary, idx,
                   runsLeft, token, tokenFile, credentials, expiring, server, tokenServer,
                   max_rate_limit_retries, rate_limit_attempts, retry_auth, sleeps, forced,
                   written, initialDownloaded,
                   failedItems, saves, posts,
                   headerChoices, callerHeaders, lastHeaders, delay, granted, scanVars>>

\* variant: retry_auth is not cleared after the forced refresh
HandleUnauthorizedKeepsRetrying ==
    /\ pc = "response"
    /\ Branch(response, retry_auth, rate_limit_attempts, max_rate_limit_retries) = "refresh"
    /\ forced' = forced + 1
    /\ \E reply \in tokenServer :
        LET r == refresh_access_token(token, credentials, TRUE, reply)
        IN  /\ posts' = IF r.posted THEN posts + 1 ELSE posts
            /\ IF r.outcome = "refreshed"
               THEN /\ token' = r.token
                    /\ tokenFile' = write_token_file(r.token)
                    /\ granted' = Payload(token, reply)
                    /\ expiring' = r.soon
                    /\ pc' = "fresh"
               ELSE /\ pc' = "raised"
                    /\ UNCHANGED <<token, tokenFile, expiring, granted>>
    /\ UNCHANGED <<items, planFile, plan_path, dry_run, summary, prevSummary, idx,
                   runsLeft, credentials, server, tokenServer, max_rate_limit_retries,
                   rate_limit_attempts, retry_auth, response, sentToken, sends, sleeps,
                   seen401, seen429, requested, written, initialDownloaded, failedItems,
                   saves,
                   headerChoices, callerHeaders, lastHeaders, delay, scanVars>>

\* variant: the forced refresh starts the count of rate-limit retries afresh
HandleUnauthorizedResetsAttempts ==
    /\ pc = "response"
    /\ Branch(response, retry_auth, rate_limit_attempts, max_rate_limit_retries) = "refresh"
    /\ forced' = forced + 1
    /\ \E reply \in tokenServer :
        LET r == refresh_access_token(token, credentials, TRUE, reply)
        IN  /\ posts' = IF r.posted THEN posts + 1 ELSE posts
            /\ IF r.outcome = "refreshed"
               THEN /\ token' = r.token
                    /\ tokenFile' = write_token_file(r.token)
                    /\ granted' = Payload(token, reply)
                    /\ expiring' = r.soon
                    /\ retry_auth' = FALSE
                    /\ rate_limit_attempts' = 0
                    /\ pc' = "fresh"
               ELSE /\ pc' = "raised"
                    /\ UNCHANGED <<token, tokenFile, expiring, retry_auth, granted,
                                   rate_limit_attempts>>
    /\ UNCHANGED <<items, planFile, plan_path, dry_run, summary, prevSummary, idx,
                   runsLeft, credentials, server, tokenServer, max_rate_limit_retries,
                   response, sentToken, sends, sleeps, seen401,
                   seen429, requested, written, initialDownloaded,
                   failedItems, saves,
                   headerChoices, callerHeaders, lastHeaders, delay, scanVars>>

\* `if response.status_code == 401 and retry_auth:` refresh_access_token(force=True),
\* retry_auth = False, continue
HandleUnauthorized ==
    /\ pc = "response"
    /\ Branch(response, retry_auth, rate_limit_attempts, max_rate_limit_retries) = "refresh"
    /\ forced' = forced + 1
    /\ \E reply \in tokenServer :
        LET r == refresh_access_token(token, credentials, TRUE, reply)
        IN  /\ posts' = IF r.posted THEN posts + 1 ELSE posts
            /\ IF r.outcome = "refreshed"
               THEN /\ token' = r.token
                    /\ tokenFile' = write_token_file(r.token)
                    /\ granted' = Payload(token, reply)
                    /\ expiring' = r.soon
                    /\ retry_auth' = FALSE
                    /\ pc' = "fresh"
               ELSE /\ pc' = "raised"
                    /\ UNCHANGED <<token, tokenFile, expiring, retry_auth, granted>>
    /\ UNCHANGED <<items, planFile, plan_path, dry_run, summary, prevSummary, idx,
                   runsLeft, credentials, server, tokenServer, max_rate_limit_retries,
                   rate_limit_attempts, response, sentToken, sends, sleeps, seen401,
                   seen429, requested, written, initialDownloaded,
                   failedItems, saves,
                   headerChoices, callerHeaders, lastHeaders, delay, scanVars>>

\* variant: a rate-limited item is put aside and the next item is fetched meanwhile
HandleRateLimitMovesOn ==
    /\ pc = "response"
    /\ Branch(response, retry_auth, rate_limit_attempts, max_rate_limit_retries) = "sleep"
    /\ \E headers \in headerChoices :
        /\ lastHeaders' = headers
        /\ delay' = _rate_limit_delay(headers, rate_limit_attempts)
    /\ rate_limit_attempts' = rate_limit_attempts + 1
    /\ idx' = idx + 1
    /\ pc' = "loop"
    /\ UNCHANGED <<items, planFile, plan_path, dry_run, summary, prevSummary,
                   runsLeft, token, tokenFile, credentials, expiring, server, tokenServer,
                   max_rate_limit_retries, retry_auth, response, sentToken, sends, forced,
                   seen401, seen429, requested, written, initialDownloaded, sleeps,
                   failedItems, saves, posts,
                   headerChoices, callerHeaders, granted, scanVars>>

\* `if response.status_code == 429 and rate_limit_attempts < max_rate_limit_retries:`
\* rate_limit_attempts += 1, _sleep(delay), continue
HandleRateLimit ==
    /\ pc = "response"
    /\ Branch(response, retry_auth, rate_limit_attempts, max_rate_limit_retries) = "sleep"
    /\ \E headers \in headerChoices :
        /\ lastHeaders' = headers
        /\ delay' = _rate_limit_delay(headers, rate_limit_attempts)
    /\ rate_limit_attempts' = rate_limit_attempts + 1
    /\ sleeps' = sleeps + 1
    /\ pc' = "fresh"
    /\ UNCHANGED <<items, planFile, plan_path, dry_run, summary, prevSummary, idx,
                   runsLeft, token, tokenFile, credentials, expiring, server, tokenServer,
                   max_rate_limit_retries, retry_auth, response, sentToken, sends, forced,
                   seen401, seen429, requested, written, initialDownloaded,
                   failedItems, saves, posts,
                   headerChoices, callerHeaders, granted, scanVars>>

\* `if response.status_code >= 400: raise FitbitAPIError`
HandleError ==
    /\ pc = "response"
    /\ Branch(response, retry_auth, rate_limit_attempts, max_rate_limit_retries) = "raise"
    /\ pc' = "raised"
    /\ UNCHANGED <<items, planFile, plan_path, dry_run, summary, prevSummary, idx,
                   runsLeft, token, tokenFile, credentials, expiring, server, tokenServer,
                   max_rate_limit_retries, rate_limit_attempts, retry_auth, response,
                   sentToken, sends, sleeps, forced, seen401, seen429, requested, written,
                   initialDownloaded,
                   failedItems, saves, posts,
                   headerChoices, callerHeaders, lastHeaders, delay, granted, scanVars>>

\* variant: the flag is set on the response, before the destination file is written
HandleSuccessSkipsWrite ==
    /\ pc = "response"
    /\ Branch(response, retry_auth, rate_limit_attempts, max_rate_limit_retries) = "return"
    /\ pc' = "flag"
    /\ UNCHANGED <<items, planFile, plan_path, dry_run, summary, prevSummary, idx,
                   runsLeft, token, tokenFile, credentials, expiring, server, tokenServer,
                   max_rate_limit_retries, rate_limit_attempts, retry_auth, response,
                   sentToken, sends, sleeps, forced, seen401, seen429, requested, written,
                   initialDownloaded, failedItems, saves, posts,
                   headerChoices, callerHeaders, lastHeaders, delay, granted, scanVars>>

\* `return response`: download_tcx hands response.content to download_plan
HandleSuccess ==
    /\ pc = "response"
    /\ Branch(response, retry_auth, rate_limit_attempts, max_rate_limit_retries) = "return"
    /\ pc' = "write"
    /\ UNCHANGED <<items, planFile, plan_path, dry_run, summary, prevSummary, idx,
                   runsLeft, token, tokenFile, credentials, expiring, server, tokenServer,
                   max_rate_limit_retries, rate_limit_attempts, retry_auth, response,
                   sentToken, sends, sleeps, forced, seen401, seen429, requested, written,
                   initialDownloaded,
                   failedItems, saves, posts,
                   headerChoices, callerHeaders, lastHeaders, delay, granted, scanVars>>

---------------------------------------------------------------------------
(* Specifications *)

Next ==
    \/ DownloadPlanBegin
    \/ SkipDownloaded
    \/ StartItem
    \/ EnsureFreshToken
    \/ Send
    \/ HandleUnauthorized
    \/ HandleRateLimit
    \/ HandleError
    \/ HandleSuccess
    \/ ItemFailed
    \/ WriteFile
    \/ MarkDownloaded
    \/ SavePlan
    \/ Finish

\* one call of download_plan on any plan of up to MaxItems items
Spec == Init /\ [][Next]_vars

\* logical requests under every configured retry maximum up to the default, on plans of
\* at most two items, issued by a caller that may pass an Authorization header of its own
InitRequest ==
    /\ InitWith(PlansUpTo(2), 0..DefaultMaxRetries, FreeServers, {TokenReplies}, {FALSE}, 1)
    /\ headerChoices = {NoHeaders}
    /\ callerHeaders \in {TcxHeaders, OwnAuthorizationHeaders}
    /\ NoScan
    /\ LibraryAtRest

SpecRequest == InitRequest /\ [][Next]_vars

\* the same plan executed twice in a row against servers whose behaviour does not
\* change: one fixed status per item, one fixed reply of the token endpoint
InitTwice ==
    /\ InitWith(PlansUpTo(TwiceItems), 0..MaxRetries, FixedServers,
                { {reply} : reply \in TokenReplies }, {FALSE}, 2)
    /\ PlainClient
    /\ NoScan
    /\ LibraryAtRest

SpecTwice == InitTwice /\ [][Next]_vars

\* the logical request for the one pending item of a plan, by a client allowed
\* BackoffRetries rate-limit retries, against a server whose 429 responses carry any
\* rate-limit headers
InitDelay ==
    /\ InitWith({ <<TCXDownloadItem(1, 1, TRUE), TCXDownloadItem(2, 2, FALSE)>> },
                {BackoffRetries}, FreeServers, {TokenReplies}, {FALSE}, 1)
    /\ headerChoices = RateLimitHeaders
    /\ callerHeaders = TcxHeaders
    /\ NoScan
    /\ LibraryAtRest

SpecDelay == InitDelay /\ [][Next]_vars

---------------------------------------------------------------------------
(* Activity records: JSON values and the text functions applied to them *)

\* JSON values as decoded by json.loads: None, str, int/float (counted in tenths), bool, list
Null == [null |-> TRUE]
Str(text) == [str |-> text]
Num(tenths) == [num |-> tenths]
Bool(b) == [bool |-> b]
List == [list |-> <<0>>]

IsStr(v) == "str" \in DOMAIN v
IsNum(v) == "num" \in DOMAIN v
IsBool(v) == "bool" \in DOMAIN v

\* the truth value of a decoded value, as `or` tests it
truthy(v) ==
    IF IsStr(v) THEN v.str # ""
    ELSE IF IsNum(v) THEN v.num # 0
    ELSE IF IsBool(v) THEN v.bool
    ELSE v # Null

\* str.strip: blanks at both ends are removed
RECURSIVE lstrip(_)
lstrip(text) ==
    IF Len(text) > 0 /\ SubSeq(text, 1, 1) = " " THEN lstrip(Tail(text)) ELSE text

RECURSIVE rstrip(_)
rstrip(text) ==
    IF Len(text) > 0 /\ SubSeq(text, Len(text), Len(text)) = " "
    THEN rstrip(SubSeq(text, 1, Len(text) - 1))
    ELSE text

strip(text) == rstrip(lstrip(text))

\* str.lower
UpperCase == "ABCDEFGHIJKLMNOPQRSTUVWXYZ"
LowerCase == "abcdefghijklmnopqrstuvwxyz"

lowerChar(c) ==
    IF \E i \in 1..Len(UpperCase) : SubSeq(UpperCase, i, i) = c
    THEN LET i == CHOOSE i \in 1..Len(UpperCase) : SubSeq(UpperCase, i, i) = c
         IN  SubSeq(LowerCase, i, i)
    ELSE c

RECURSIVE lower(_)
lower(text) ==
    IF text = "" THEN "" ELSE lowerChar(SubSeq(text, 1, 1)) \o lower(Tail(text))

\* str.isdigit: not empty and digits only
isdigit(text) ==
    /\ text # ""
    /\ \A i \in 1..Len(text) : \E d \in 1..10 : SubSeq("0123456789", d, d) = SubSeq(text, i, i)

\* texts on which float() succeeds, and the number they spell, counted in tenths
DistanceFloats == {"3.2", "0", "7", "-1"}
float10(text) ==
    CASE text = "3.2" -> 32 [] text = "0" -> 0 [] text = "7" -> 70 [] text = "-1" -> 0 - 10

\* the text after the last `sep` of text (all of it when there is none)
RECURSIVE AfterLast(_, _)
AfterLast(text, sep) ==
    IF \E i \in 1..Len(text) : SubSeq(text, i, i) = sep
    THEN LET i == CHOOSE i \in 1..Len(text) : SubSeq(text, i, i) = sep
         IN  AfterLast(SubSeq(text, i + 1, Len(text)), sep)
    ELSE text

\* the text before the first `sep` of text (all of it when there is none)
Before(text, sep) ==
    IF \E i \in 1..Len(text) : SubSeq(text, i, i) = sep
    THEN LET i == CHOOSE i \in 1..Len(text) :
                     /\ SubSeq(text, i, i) = sep
                     /\ \A j \in 1..(i - 1) : SubSeq(text, j, j) # sep
         IN  SubSeq(text, 1, i - 1)
    ELSE text

\* Path(urlparse(link).path).name: query and fragment are cut off, the last segment is kept
UrlPathName(link) == AfterLast(Before(Before(link, "#"), "?"), "/")

\* an activity record: the four keys the helpers read (Null: key absent or null)
Activity(distance, hasGps, tcx_link, tcxLink) ==
    [distance |-> distance, hasGps |-> hasGps, tcx_link |-> tcx_link, tcxLink |-> tcxLink]

\* isinstance(value, (int, float)): bool is a subclass of int, True counting as 1
IsNumber(v) == IsNum(v) \/ IsBool(v)
AsFloat10(v) == IF IsBool(v) THEN (IF v.bool THEN 10 ELSE 0) ELSE v.num

_activity_has_distance(activity) ==
    LET value == activity.distance
    IN  IF value = Null THEN FALSE
        ELSE IF IsNumber(value) THEN AsFloat10(value) > 0
        ELSE IF IsStr(value)
        THEN strip(value.str) \in DistanceFloats /\ float10(strip(value.str)) > 0
        ELSE FALSE

\* variant: any value that counts as true in a condition reports GPS data
_activity_has_gps_truthy(activity) == truthy(activity.hasGps)

_activity_has_gps(activity) ==
    LET has_gps == activity.hasGps
    IN  IF IsBool(has_gps) THEN has_gps.bool
        ELSE IF IsStr(has_gps)
        THEN LET lowered == lower(strip(has_gps.str))
             IN  IF lowered \in {"true", "1", "yes"} THEN TRUE
                 ELSE IF lowered \in {"false", "0", "no"} THEN FALSE
                 ELSE FALSE
        ELSE FALSE

\* the helpers' `return None`
NoLink == ""
NoId == ""

_extract_tcx_link(activity) ==
    LET link == IF truthy(activity.tcx_link) THEN activity.tcx_link ELSE activity.tcxLink
    IN  IF IsStr(link) /\ strip(link.str) # "" THEN strip(link.str) ELSE NoLink

_extract_tcx_id(link) ==
    LET name == UrlPathName(link)
    IN  IF Len(name) >= 4 /\ lower(SubSeq(name, Len(name) - 3, Len(name))) = ".tcx"
        THEN SubSeq(name, 1, Len(name) - 4)
        ELSE NoId

---------------------------------------------------------------------------
(* collect_plan *)

\* the *.json files that may lie under activities_dir, as the parts of their relative
\* paths, in the order sorted() gives them
SortedShardPaths ==
    << <<"2023", "11.json">>, <<"2024", "01.json">>, <<"2024", "notes.json">>,
       <<"misc", "01.json">>, <<"notes.json">> >>

\* Path.stem of a file name: the name without its last suffix
stem(name) ==
    IF \E i \in 2..Len(name) : SubSeq(name, i, i) = "."
    THEN LET i == CHOOSE i \in 2..Len(name) :
                     /\ SubSeq(name, i, i) = "."
                     /\ \A j \in (i + 1)..Len(name) : SubSeq(name, j, j) # "."
         IN  SubSeq(name, 1, i - 1)
    ELSE name

\* variant: every path resolves, to its first part and the stem of its last
_resolve_year_month_unchecked(parts) ==
    [ok |-> TRUE, year |-> parts[1], month |-> stem(parts[Len(parts)])]

\* _resolve_year_month: ok is FALSE where the code raises ValueError
_resolve_year_month(parts) ==
    IF Len(parts) < 2
    THEN [ok |-> FALSE, year |-> "", month |-> ""]
    ELSE LET year == parts[1]
             month == stem(parts[Len(parts)])
         IN  IF ~isdigit(year) \/ Len(month) = 0
             THEN [ok |-> FALSE, year |-> "", month |-> ""]
             ELSE [ok |-> TRUE, year |-> year, month |-> month]

\* what a file may hold: a JSON list, an object with a list under "activities", an
\* object without one, another JSON value, or text that is not JSON
FilePayloads == {"list", "object", "object without activities", "scalar", "not json"}

\* _load_json_array returns a list (TRUE) or raises ValueError (FALSE)
_load_json_array(payload) == payload \in {"list", "object"}

\* output_path / year / f"{month}_{tcx_id}.tcx", relative to output_path
output_file(year, month, tcx_id) == year \o "/" \o month \o "_" \o tcx_id \o ".tcx"

\* URLs of tracks: two that ask for the same file name, one without the .tcx suffix
TrackUrl == "https://f/1/a.tcx"
OtherTrackUrl == "https://f/2/a.TCX?v=1"
PageUrl == "https://f/1/c"

\* activities of a scan: a track, the same track with its fields spelled as texts, another
\* track, a track without distance, a link that is no track
ScanActivities ==
    { Activity(Num(32), Bool(TRUE), Str(TrackUrl), Null),
      Activity(Str("3.2"), Str("true"), Null, Str(" " \o TrackUrl \o " ")),
      Activity(Num(32), Bool(TRUE), Str(OtherTrackUrl), Null),
      Activity(Num(0), Bool(TRUE), Str(TrackUrl), Null),
      Activity(Num(32), Bool(TRUE), Str(PageUrl), Null) }

\* values the distance key may hold, and values the hasGps key may hold
DistanceValues ==
    { Null, Num(0), Num(32), Num(0 - 10), Bool(TRUE), Bool(FALSE), Str("3.2"), Str("0"),
      Str(" 7 "), Str("-1"), Str("abc"), Str(""), List }

GpsValues ==
    { Null, Bool(TRUE), Bool(FALSE), Str("true"), Str(" Yes "), Str("1"), Str("TRUE"),
      Str("false"), Str("no"), Str("0"), Str("maybe"), Str(""), Num(10), List }

\* activities with a track link and every combination of distance and hasGps
RecordActivities ==
    { Activity(d, g, Str(TrackUrl), Null) : d \in DistanceValues, g \in GpsValues }

\* values either spelling of the link key may hold: absent, empty, blank, a number, a
\* track URL, a URL that is no track
LinkValues == { Null, Str(""), Str("  "), Num(32), Str(TrackUrl), Str(PageUrl) }

\* eligible activities with every combination of values under tcx_link and tcxLink
LinkActivities ==
    { Activity(Num(32), Bool(TRUE), a, b) : a \in LinkValues, b \in LinkValues }

\* what the helpers return for an activity
Classify(activity) ==
    [has_distance |-> _activity_has_distance(activity),
     has_gps |-> _activity_has_gps(activity),
     link |-> _extract_tcx_link(activity),
     tcx_id |-> _extract_tcx_id(_extract_tcx_link(activity))]

\* the helpers' results for the activities of the model, and _resolve_year_month of the
\* files, computed once
Helpers ==
    [activity \in ScanActivities \cup RecordActivities \cup LinkActivities |->
        Classify(activity)]
ShardTimes == [f \in 1..Len(SortedShardPaths) |-> _resolve_year_month(SortedShardPaths[f])]

\* the activity passes every `continue` of the loop body
Appends(activity, seen) ==
    /\ Helpers[activity].has_distance
    /\ Helpers[activity].has_gps
    /\ Helpers[activity].link # NoLink
    /\ Helpers[activity].link \notin seen
    /\ Helpers[activity].tcx_id # NoId

\* TCXDownloadItem.from_dict; str() of a str and bool() of a bool return their argument
str(v) == v
bool(v) == (v = TRUE)

from_dict(data) ==
    TCXDownloadItem(str(data["url"]), str(data["path"]),
                    IF "downloaded" \in DOMAIN data THEN bool(data["downloaded"]) ELSE FALSE)

\* load_plan: from_dict of every entry of the document, in document order
load_plan(doc) == [i \in 1..Len(doc) |-> from_dict(doc[i])]

\* a plan document whose entries carry further fields
WithFields(doc, names) ==
    [i \in 1..Len(doc) |->
        [k \in DOMAIN doc[i] \cup names |-> IF k \in DOMAIN doc[i] THEN doc[i][k] ELSE "x"]]

ExtraFields == {{}, {"note"}, {"note", "size"}}

\* the client and the call of download_plan
requestVars ==
    <<plan_path, dry_run, summary, prevSummary, idx, runsLeft, token, tokenFile,
      credentials, expiring, server, tokenServer, max_rate_limit_retries,
      rate_limit_attempts, retry_auth, response, sentToken, sends, sleeps, forced,
      seen401, seen429, requested, written, initialDownloaded, failedItems, saves, posts,
      headerChoices, callerHeaders, lastHeaders, delay, granted>>

\* what collect_plan, save_plan and load_plan leave alone
clientVars == <<requestVars, libraryVars>>

\* main: no plan document exists at plan_path, so the plan is collected
CollectPlanBegin ==
    /\ pc = "idle"
    /\ collected' = <<>>
    /\ seen_urls' = {}
    /\ shardNo' = 0
    /\ recNo' = 0
    /\ scanned' = <<>>
    /\ pc' = "scan"
    /\ UNCHANGED <<clientVars, shardChoices,
                   filePayload, items, planFile, activityChoices, activityLimit, existing,
                   loaded>>

\* variant: a file that cannot be used ends the plan built so far
SkipFileDropsPlan ==
    /\ pc = "scan"
    /\ \E f \in shardChoices, payload \in FilePayloads :
        /\ f > shardNo
        /\ ~ShardTimes[f].ok \/ ~_load_json_array(payload)
        /\ shardNo' = f
        /\ filePayload' = IF ShardTimes[f].ok THEN payload ELSE ""
    /\ collected' = <<>>
    /\ seen_urls' = {}
    /\ UNCHANGED <<clientVars, shardChoices, items, planFile, pc, activityChoices,
                   activityLimit, existing, recNo, scanned, loaded>>

\* `for json_file in sorted(...)`: the next file has a path that does not resolve to a
\* year and a month, or a payload that is not a list of activities: `continue`
SkipFile ==
    /\ pc = "scan"
    /\ \E f \in shardChoices, payload \in FilePayloads :
        /\ f > shardNo
        /\ ~ShardTimes[f].ok \/ ~_load_json_array(payload)
        /\ shardNo' = f
        /\ filePayload' = IF ShardTimes[f].ok THEN payload ELSE ""
    /\ UNCHANGED <<clientVars, shardChoices,
                   items, planFile, pc, activityChoices, activityLimit, existing,
                   recNo, scanned, collected, seen_urls, loaded>>

\* variant: the URLs seen in earlier files are forgotten when a file is opened
OpenFileForgetsSeen ==
    /\ pc = "scan"
    /\ \E f \in shardChoices, payload \in FilePayloads :
        /\ f > shardNo
        /\ ShardTimes[f].ok
        /\ _load_json_array(payload)
        /\ shardNo' = f
        /\ filePayload' = payload
    /\ recNo' = 0
    /\ seen_urls' = {}
    /\ pc' = "activities"
    /\ UNCHANGED <<clientVars, shardChoices,
                   items, planFile, activityChoices, activityLimit, existing,
                   scanned, collected, loaded>>

\* the next file resolves to a year and a month and holds a list: `for activity in data`
OpenFile ==
    /\ pc = "scan"
    /\ \E f \in shardChoices, payload \in FilePayloads :
        /\ f > shardNo
        /\ ShardTimes[f].ok
        /\ _load_json_array(payload)
        /\ shardNo' = f
        /\ filePayload' = payload
    /\ recNo' = 0
    /\ pc' = "activities"
    /\ UNCHANGED <<clientVars, shardChoices,
                   items, planFile, activityChoices, activityLimit, existing,
                   scanned, collected, seen_urls, loaded>>

\* the next activity of the file is passed over by one of the `continue` statements
SkipActivity ==
    /\ pc = "activities"
    /\ Len(scanned) < activityLimit
    /\ \E activity \in activityChoices :
        /\ ~Appends(activity, seen_urls)
        /\ scanned' = Append(scanned, [file |-> shardNo, activity |-> activity])
    /\ recNo' = recNo + 1
    /\ UNCHANGED <<clientVars, shardChoices,
                   filePayload, items, planFile, pc, activityChoices, activityLimit, existing,
                   shardNo, collected, seen_urls, loaded>>

\* variant: every item is collected as not downloaded
AppendItemNotDownloaded ==
    /\ pc = "activities"
    /\ Len(scanned) < activityLimit
    /\ \E activity \in activityChoices :
        /\ Appends(activity, seen_urls)
        /\ LET link == Helpers[activity].link
               when == ShardTimes[shardNo]
               path == output_file(when.year, when.month, Helpers[activity].tcx_id)
           IN  /\ collected' = Append(collected, TCXDownloadItem(link, path, FALSE))
               /\ seen_urls' = seen_urls \cup {link}
        /\ scanned' = Append(scanned, [file |-> shardNo, activity |-> activity])
    /\ recNo' = recNo + 1
    /\ UNCHANGED <<clientVars, shardChoices,
                   filePayload, items, planFile, pc, activityChoices, activityLimit, existing,
                   shardNo, loaded>>

\* items.append(TCXDownloadItem(url=link, path=..., downloaded=output_file.exists())),
\* seen_urls.add(link)
AppendItem ==
    /\ pc = "activities"
    /\ Len(scanned) < activityLimit
    /\ \E activity \in activityChoices :
        /\ Appends(activity, seen_urls)
        /\ LET link == Helpers[activity].link
               when == ShardTimes[shardNo]
               path == output_file(when.year, when.month, Helpers[activity].tcx_id)
           IN  /\ collected' = Append(collected, TCXDownloadItem(link, path, path \in existing))
               /\ seen_urls' = seen_urls \cup {link}
        /\ scanned' = Append(scanned, [file |-> shardNo, activity |-> activity])
    /\ recNo' = recNo + 1
    /\ UNCHANGED <<clientVars, shardChoices,
                   filePayload, items, planFile, pc, activityChoices, activityLimit, existing,
                   shardNo, loaded>>

\* the activities of the file are exhausted
EndOfFile ==
    /\ pc = "activities"
    /\ pc' = "scan"
    /\ filePayload' = ""
    /\ UNCHANGED <<clientVars, shardChoices,
                   items, planFile, activityChoices, activityLimit, existing,
                   shardNo, recNo, scanned, collected, seen_urls, loaded>>

\* the files are exhausted: `return items`; main saves the plan at plan_path
CollectReturn ==
    /\ pc = "scan"
    /\ items' = collected
    /\ planFile' = save_plan(collected)
    /\ pc' = "planned"
    /\ UNCHANGED <<clientVars, shardChoices,
                   filePayload, activityChoices, activityLimit, existing, shardNo, recNo,
                   scanned, collected, seen_urls, loaded>>

\* a later start of main finds the plan document, possibly with fields added to its
\* entries, and loads it
LoadPlan ==
    /\ pc = "planned"
    /\ \E names \in ExtraFields : loaded' = load_plan(WithFields(planFile, names))
    /\ pc' = "resumed"
    /\ UNCHANGED <<clientVars, shardChoices,
                   filePayload, items, planFile, activityChoices, activityLimit, existing,
                   shardNo, recNo, scanned, collected, seen_urls>>

NextCollect ==
    \/ CollectPlanBegin
    \/ SkipFile
    \/ OpenFile
    \/ SkipActivity
    \/ AppendItem
    \/ EndOfFile
    \/ CollectReturn
    \/ LoadPlan

\* the files that are named after a month, and the files whose path is no shard path
OrdinaryShards ==
    { f \in 1..Len(SortedShardPaths) : ~ShardTimes[f].ok \/ isdigit(ShardTimes[f].month) }

\* the destination files a scan of ScanActivities can name in a month directory
DestinationPaths ==
    { output_file(ShardTimes[f].year, ShardTimes[f].month, "a") :
        f \in { g \in 1..Len(SortedShardPaths) :
                    ShardTimes[g].ok /\ isdigit(ShardTimes[g].month) } }

\* a client that is not used: no refresh token, no credentials, an empty plan
ClientAtRest ==
    /\ InitWith({<<>>}, {0}, FreeServers, {{ErrorReply}}, {FALSE}, 0)
    /\ plan_path
    /\ token = TokenData(0, FALSE, FALSE)
    /\ ~credentials
    /\ ~expiring
    /\ PlainClient

\* main with no plan document at plan_path: any files under activities_dir, holding up
\* to MaxActivities of the ScanActivities in all, and any of the destination files on disk
InitCollect ==
    /\ ClientAtRest
    /\ activityChoices = ScanActivities
    /\ activityLimit = MaxActivities
    /\ existing \in SUBSET DestinationPaths
    /\ shardNo = 0
    /\ recNo = 0
    /\ scanned = <<>>
    /\ collected = <<>>
    /\ seen_urls = {}
    /\ loaded = <<>>
    /\ filePayload = ""
    /\ LibraryAtRest
    /\ shardChoices = OrdinaryShards

SpecCollect == InitCollect /\ [][NextCollect]_vars

\* main with no plan document at plan_path: one activity under activities_dir, which
\* carries a track link and any distance and hasGps values; no destination file on disk
InitRecord ==
    /\ ClientAtRest
    /\ activityChoices = RecordActivities
    /\ activityLimit = 1
    /\ existing = {}
    /\ shardNo = 0
    /\ recNo = 0
    /\ scanned = <<>>
    /\ collected = <<>>
    /\ seen_urls = {}
    /\ loaded = <<>>
    /\ filePayload = ""
    /\ LibraryAtRest
    /\ shardChoices = OrdinaryShards

SpecRecord == InitRecord /\ [][NextCollect]_vars

\* main with no plan document at plan_path: the file 2024/01.json under activities_dir,
\* holding up to MaxLinkRecords eligible activities with any values under the two
\* spellings of the link key; no destination file on disk
InitLinks ==
    /\ ClientAtRest
    /\ activityChoices = LinkActivities
    /\ activityLimit = MaxLinkRecords
    /\ existing = {}
    /\ shardNo = 0
    /\ recNo = 0
    /\ scanned = <<>>
    /\ collected = <<>>
    /\ seen_urls = {}
    /\ loaded = <<>>
    /\ filePayload = ""
    /\ LibraryAtRest
    /\ shardChoices = {2}

SpecLinks == InitLinks /\ [][NextCollect]_vars

\* main with no plan document at plan_path: any of the files of SortedShardPaths under
\* activities_dir, holding up to two of the ScanActivities in all; no destination file
InitShards ==
    /\ ClientAtRest
    /\ LibraryAtRest
    /\ activityChoices = ScanActivities
    /\ activityLimit = 2
    /\ existing = {}
    /\ shardNo = 0
    /\ recNo = 0
    /\ scanned = <<>>
    /\ collected = <<>>
    /\ seen_urls = {}
    /\ loaded = <<>>
    /\ filePayload = ""
    /\ shardChoices = 1..Len(SortedShardPaths)

SpecShards == InitShards /\ [][NextCollect]_vars

---------------------------------------------------------------------------
(* tokens.py: the token document and the TokenData built from it *)

\* timedelta(minutes=1), the default delta of will_expire_within, in seconds
DefaultLookahead == 60

\* a JSON array, and a datetime as seconds after 2099-01-01T00:00:00+00:00
Array(seq) == [array |-> seq]
IsArray(v) == "array" \in DOMAIN v
Instant(seconds) == [instant |-> seconds]

\* dict.get(key): None when the key is missing
get(payload, key) == IF key \in DOMAIN payload THEN payload[key] ELSE Null

\* the value of a decimal digit, and of the two digits of text at position i
DigitValue(c) == (CHOOSE d \in 1..10 : SubSeq("0123456789", d, d) = c) - 1
int2(text, i) == 10 * DigitValue(SubSeq(text, i, i)) + DigitValue(SubSeq(text, i + 1, i + 1))
two(n) == SubSeq("0123456789", (n \div 10) + 1, (n \div 10) + 1)
              \o SubSeq("0123456789", (n % 10) + 1, (n % 10) + 1)

\* datetime.fromisoformat accepts the text: a time of 2099-01-01 with or without an offset
IsIsoFormat(text) ==
    /\ Len(text) \in {19, 25}
    /\ SubSeq(text, 1, 11) = "2099-01-01T"
    /\ \A i \in {12, 15, 18} : isdigit(SubSeq(text, i, i + 1))
    /\ Len(text) = 25 =>
          /\ SubSeq(text, 20, 20) \in {"+", "-"}
          /\ \A i \in {21, 24} : isdigit(SubSeq(text, i, i + 1))

\* _parse_timestamp: the instant the text names; a text without offset is taken as UTC
_parse_timestamp(value) ==
    LET local == 3600 * int2(value, 12) + 60 * int2(value, 15) + int2(value, 18)
        offset == IF Len(value) = 19 THEN 0
                  ELSE (IF SubSeq(value, 20, 20) = "-" THEN 0 - 1 ELSE 1)
                          * (3600 * int2(value, 21) + 60 * int2(value, 24))
    IN  local - offset

\* expires_at.astimezone(UTC).isoformat(), for an instant of 2099-01-01
isoformat(seconds) ==
    "2099-01-01T" \o two(seconds \div 3600) \o ":" \o two((seconds % 3600) \div 60)
        \o ":" \o two(seconds % 60) \o "+00:00"

\* str.split(): the words of the text, blanks dropped
RECURSIVE split(_)
split(text) ==
    LET t == lstrip(text)
    IN  IF t = "" THEN <<>>
        ELSE LET blanks == { i \in 1..Len(t) : SubSeq(t, i, i) = " " }
                 n == IF blanks = {} THEN Len(t) + 1
                      ELSE CHOOSE i \in blanks : \A j \in blanks : i <= j
             IN  <<SubSeq(t, 1, n - 1)>> \o split(SubSeq(t, n, Len(t)))

\* " ".join(words)
RECURSIVE join(_)
join(words) ==
    IF Len(words) = 0 THEN ""
    ELSE IF Len(words) = 1 THEN words[1]
    ELSE words[1] \o " " \o join(Tail(words))

\* what from_dict raises instead of returning a TokenData
KeyError == [error |-> "KeyError"]
ValueError == [error |-> "ValueError"]
IsError(v) == "error" \in DOMAIN v

\* variant: a payload without access_token gives a token whose access_token is None
from_dict_access_token_optional(payload) ==
    [access_token |-> get(payload, "access_token"),
     refresh_token |-> get(payload, "refresh_token"),
     expires_at |-> Null,
     scope |-> Null,
     token_type |-> get(payload, "token_type"),
     raw |-> payload]

\* TokenData.from_dict: expires_at is parsed first, access_token is required
TokenData_from_dict(payload) ==
    LET expires_at_str == get(payload, "expires_at")
        scope_value == get(payload, "scope")
    IN  IF truthy(expires_at_str) /\ ~IsIsoFormat(expires_at_str.str) THEN ValueError
        ELSE IF "access_token" \notin DOMAIN payload THEN KeyError
        ELSE [access_token |-> payload["access_token"],
              refresh_token |-> get(payload, "refresh_token"),
              expires_at |-> IF truthy(expires_at_str)
                             THEN Instant(_parse_timestamp(expires_at_str.str))
                             ELSE Null,
              scope |-> IF IsStr(scope_value) THEN Array(split(scope_value.str))
                        ELSE IF IsArray(scope_value)
                        THEN Array([i \in 1..Len(scope_value.array) |->
                                        str(scope_value.array[i])])
                        ELSE Null,
              token_type |-> get(payload, "token_type"),
              raw |-> payload]

\* variant: only the fields the token manages are written, the raw payload is dropped
as_serializable_dict_managed_only(tok) ==
    [key \in {"access_token", "token_type"} |-> tok[key]]

\* variant: every key of the raw payload that the token left out is dropped when empty
as_serializable_dict_omits_empty(tok) ==
    LET own == {"access_token", "token_type"}
                  \cup (IF truthy(tok.refresh_token) THEN {"refresh_token"} ELSE {})
                  \cup (IF tok.expires_at # Null THEN {"expires_at"} ELSE {})
                  \cup (IF tok.scope # Null /\ Len(tok.scope.array) > 0
                        THEN {"scope"} ELSE {})
        carried == IF tok.raw # Null
                   THEN DOMAIN tok.raw \ {"refresh_token", "expires_at", "scope"}
                   ELSE {}
    IN  [key \in own \cup carried |->
            IF key = "expires_at" THEN Str(isoformat(tok.expires_at.instant))
            ELSE IF key = "scope" THEN Str(join(tok.scope.array))
            ELSE IF key \in own THEN tok[key]
            ELSE tok.raw[key]]

\* TokenData.as_serializable_dict: the managed fields, then every key of raw not yet set
TokenData_as_serializable_dict(tok) ==
    LET own == {"access_token", "token_type"}
                  \cup (IF truthy(tok.refresh_token) THEN {"refresh_token"} ELSE {})
                  \cup (IF tok.expires_at # Null THEN {"expires_at"} ELSE {})
                  \cup (IF tok.scope # Null /\ Len(tok.scope.array) > 0
                        THEN {"scope"} ELSE {})
        carried == IF tok.raw # Null THEN DOMAIN tok.raw ELSE {}
    IN  [key \in own \cup carried |->
            IF key \notin own THEN tok.raw[key]
            ELSE IF key = "expires_at" THEN Str(isoformat(tok.expires_at.instant))
            ELSE IF key = "scope" THEN Str(join(tok.scope.array))
            ELSE tok[key]]

\* variant: a token expiring exactly at now + delta is not yet reported
will_expire_within_strict(tok, clock, delta) ==
    IF tok.expires_at = Null THEN FALSE
    ELSE tok.expires_at.instant < clock + delta

\* TokenData.will_expire_within, with datetime.now(tz=UTC) = clock
TokenData_will_expire_within(tok, clock, delta) ==
    IF tok.expires_at = Null THEN FALSE
    ELSE tok.expires_at.instant <= clock + delta

\* the fields a token document may hold, and the values each may have
Absent == [absent |-> TRUE]
TokenFields == {"access_token", "refresh_token", "expires_at", "scope", "token_type", "user_id"}

FieldValues ==
    [access_token : {Absent, Str("abc")},
     refresh_token : {Absent, Null, Str(""), Str("def")},
     expires_at : {Absent, Null, Str(""), Str("2099-01-01T00:01:00+00:00"),
                   Str("2099-01-01T01:01:00+01:00"), Str("2099-01-01T00:01:30"),
                   Str("never")},
     scope : {Absent, Null, Str(""), Str("activity location"), Str(" activity  location "),
              Array(<<>>), Array(<<"activity", "location">>)},
     token_type : {Absent, Null, Str("Bearer")},
     user_id : {Absent, Str("U1")}]

TokenDocuments ==
    { [key \in { k \in TokenFields : full[k] # Absent } |-> full[key]] : full \in FieldValues }

\* tokens built by the TokenData constructor, which have no raw payload
ConstructedTokens ==
    [access_token : {Str("abc")},
     refresh_token : {Null, Str(""), Str("def")},
     expires_at : {Null, Instant(60)},
     scope : {Null, Array(<<>>), Array(<<"activity">>)},
     token_type : {Null, Str("Bearer")},
     raw : {Null}]

\* the instants the clock may show, and the deltas will_expire_within is called with
Clock == {0, 30, 60}
Lookaheads == {DefaultLookahead, 0, 30}
NoVerdict == [asked |-> FALSE]

\* nothing exists at the token path
NoDocument == [missing |-> TRUE]
FileNotFoundError == [error |-> "FileNotFoundError"]

\* FitbitAPIClient.__init__: load_token_file(token_path); an error ends the construction
LoadTokenFile ==
    /\ startup = "start"
    /\ LET result == IF tokenDoc = NoDocument THEN FileNotFoundError
                     ELSE TokenData_from_dict(tokenDoc)
       IN  IF IsError(result)
           THEN /\ startup' = result.error
                /\ UNCHANGED tokenObj
           ELSE /\ startup' = "loaded"
                /\ tokenObj' = result
    /\ UNCHANGED <<programVars, fetchVars, bucketVars, tokenDoc, originalDoc, now, verdict>>

\* TokenData(...): a token built in memory, with nothing yet at the token path
NewToken ==
    /\ startup = "start"
    /\ tokenDoc = NoDocument
    /\ tokenObj' \in ConstructedTokens
    /\ startup' = "constructed"
    /\ UNCHANGED <<programVars, fetchVars, bucketVars, tokenDoc, originalDoc, now, verdict>>

\* time passes: the last answer of will_expire_within is out of date
Tick ==
    /\ \E later \in Clock : later > now /\ now' = later
    /\ verdict' = NoVerdict
    /\ UNCHANGED <<programVars, fetchVars, bucketVars, tokenDoc, originalDoc, tokenObj, startup>>

\* token.will_expire_within(delta)
WillExpireWithin ==
    /\ startup \in {"loaded", "constructed", "saved"}
    /\ \E delta \in Lookaheads :
          verdict' = [asked |-> TRUE, delta |-> delta,
                      result |-> TokenData_will_expire_within(tokenObj, now, delta)]
    /\ UNCHANGED <<programVars, fetchVars, bucketVars, tokenDoc, originalDoc, tokenObj,
                   startup, now>>

\* write_token_file(token, token_path)
WriteTokenFile ==
    /\ startup \in {"loaded", "constructed"}
    /\ tokenDoc' = TokenData_as_serializable_dict(tokenObj)
    /\ startup' = "saved"
    /\ UNCHANGED <<programVars, fetchVars, bucketVars, originalDoc, tokenObj, now, verdict>>

NextTokenFile ==
    \/ LoadTokenFile
    \/ NewToken
    \/ Tick
    \/ WillExpireWithin
    \/ WriteTokenFile

\* any document at the token path or none, no token in memory yet
InitTokenFile ==
    /\ ClientAtRest
    /\ NoScan
    /\ NoTool
    /\ tokenDoc \in TokenDocuments \cup {NoDocument}
    /\ originalDoc = tokenDoc
    /\ tokenObj = Null
    /\ startup = "start"
    /\ now = 0
    /\ verdict = NoVerdict
    /\ NoFetch
    /\ NoBuckets

SpecTokenFile == InitTokenFile /\ [][NextTokenFile]_vars

---------------------------------------------------------------------------
(* activity.py: FitbitActivityFetcher.iter_activities *)

MaxPages == 3           \* most pages the activity-list endpoint holds

\* the bounds iter_activities puts on page_size
MinPageSize == 1
MaxPageSize == 100

\* the page sizes a caller may pass, and the batch sizes a page may have
PageSizes == {0, MinPageSize, MaxPageSize, MaxPageSize + 1}
BatchSizes == 0..2

\* a page of the endpoint: the number of activities in body["activities"] and the page
\* that body["pagination"]["next"] names (0: no next link); links lead forward
ServerLayouts(n) ==
    { pages \in [1..n -> [size : BatchSizes, next : 0..n]] :
        \A p \in 1..n : pages[p].next = 0 \/ pages[p].next > p }

\* the activities of page p, in the order of body["activities"]
Batch(pages, p) == [i \in 1..pages[p].size |-> <<p, i>>]

\* variant: the first call of next() neither checks page_size nor fails
StartIterationUnchecked ==
    /\ iterState \in {"idle", "done", "abandoned", "ValueError", "FitbitAPIError"}
    /\ iterationsLeft > 0
    /\ iterationsLeft' = iterationsLeft - 1
    /\ page_size' \in PageSizes
    /\ yielded' = <<>>
    /\ fetched' = <<>>
    /\ traffic' = 0
    /\ batchPos' = 0
    /\ _last_request_count' = 0
    /\ pageNo' = 1
    /\ iterState' = "request"
    /\ UNCHANGED <<programVars, tokenStoreVars, bucketVars, serverPages>>

\* the generator is started by the first next(): page_size is checked, the request
\* count is reset and page_url is the first page
StartIteration ==
    /\ iterState \in {"idle", "done", "abandoned", "ValueError", "FitbitAPIError"}
    /\ iterationsLeft > 0
    /\ iterationsLeft' = iterationsLeft - 1
    /\ yielded' = <<>>
    /\ fetched' = <<>>
    /\ traffic' = 0
    /\ batchPos' = 0
    /\ \E size \in PageSizes :
          /\ page_size' = size
          /\ IF size < MinPageSize \/ size > MaxPageSize
             THEN /\ iterState' = "ValueError"
                  /\ UNCHANGED <<_last_request_count, pageNo>>
             ELSE /\ _last_request_count' = 0
                  /\ pageNo' = 1
                  /\ iterState' = "request"
    /\ UNCHANGED <<programVars, tokenStoreVars, bucketVars, serverPages>>

\* variant: a returned page is not counted
FetchPageUncounted ==
    /\ iterState = "request"
    /\ \E exchanges \in 1..2 : traffic' = traffic + exchanges
    /\ \E ok \in BOOLEAN :
          IF ok
          THEN /\ fetched' = Append(fetched, pageNo)
               /\ batchPos' = 0
               /\ iterState' = "yield"
               /\ UNCHANGED _last_request_count
          ELSE /\ iterState' = "FitbitAPIError"
               /\ UNCHANGED <<_last_request_count, fetched, batchPos>>
    /\ UNCHANGED <<programVars, tokenStoreVars, bucketVars, serverPages, page_size, pageNo,
                   yielded, iterationsLeft>>

\* self.request("GET", page_url): one logical request, of one or more HTTP exchanges,
\* which returns the page or raises FitbitAPIError; a returned page is counted
FetchPage ==
    /\ iterState = "request"
    /\ \E exchanges \in 1..2 : traffic' = traffic + exchanges
    /\ \E ok \in BOOLEAN :
          IF ok
          THEN /\ _last_request_count' = _last_request_count + 1
               /\ fetched' = Append(fetched, pageNo)
               /\ batchPos' = 0
               /\ iterState' = "yield"
          ELSE /\ iterState' = "FitbitAPIError"
               /\ UNCHANGED <<_last_request_count, fetched, batchPos>>
    /\ UNCHANGED <<programVars, tokenStoreVars, bucketVars, serverPages, page_size, pageNo,
                   yielded, iterationsLeft>>

\* `for activity in batch: yield activity`
YieldActivity ==
    /\ iterState = "yield"
    /\ batchPos < serverPages[pageNo].size
    /\ yielded' = Append(yielded, Batch(serverPages, pageNo)[batchPos + 1])
    /\ batchPos' = batchPos + 1
    /\ UNCHANGED <<programVars, tokenStoreVars, bucketVars, serverPages, page_size,
                   iterState, pageNo, fetched, _last_request_count, traffic,
                   iterationsLeft>>

\* the batch is exhausted: follow pagination.next, or stop when there is none
NextPage ==
    /\ iterState = "yield"
    /\ batchPos = serverPages[pageNo].size
    /\ IF serverPages[pageNo].next = 0
       THEN /\ iterState' = "done"
            /\ UNCHANGED pageNo
       ELSE /\ pageNo' = serverPages[pageNo].next
            /\ iterState' = "request"
    /\ UNCHANGED <<programVars, tokenStoreVars, bucketVars, serverPages, page_size,
                   batchPos, yielded, fetched, _last_request_count, traffic,
                   iterationsLeft>>

\* the consumer stops iterating and drops the generator
Abandon ==
    /\ iterState \in {"request", "yield"}
    /\ iterState' = "abandoned"
    /\ UNCHANGED <<programVars, tokenStoreVars, bucketVars, serverPages, page_size, pageNo,
                   batchPos, yielded, fetched, _last_request_count, traffic,
                   iterationsLeft>>

NextFetch ==
    \/ StartIteration
    \/ FetchPage
    \/ YieldActivity
    \/ NextPage
    \/ Abandon

\* a fetcher that has not iterated yet, in front of any endpoint of up to MaxPages
\* pages; two iterations are made, one after the other
InitFetch ==
    /\ ClientAtRest
    /\ NoScan
    /\ NoTool
    /\ NoTokenStore
    /\ NoBuckets
    /\ serverPages \in UNION { ServerLayouts(n) : n \in 1..MaxPages }
    /\ page_size = 0
    /\ iterState = "idle"
    /\ pageNo = 0
    /\ batchPos = 0
    /\ yielded = <<>>
    /\ fetched = <<>>
    /\ _last_request_count = 0
    /\ traffic = 0
    /\ iterationsLeft = 2

SpecFetch == InitFetch /\ [][NextFetch]_vars

---------------------------------------------------------------------------
(* dump_utils.py: the month of an activity and bucket_activities_by_month *)

MaxRecords == 3         \* most records the bucketed iterable holds

\* _TIME_FIELDS, in the order they are tried
_TIME_FIELDS ==
    <<"originalStartTime", "startDateTime", "startTime", "startDate", "startDateLocal">>

\* a JSON number n * 10^scale; numbers that fit 31 bits are written with scale 0 and a
\* scale above 0 is used for numbers of 10^12 and more
Number(n, scale) == [number |-> n, scale |-> scale]
IsNumber31(v) == "number" \in DOMAIN v

\* the datetime a time field is turned into, of which only year and month are used
Date(year, month) == [year |-> year, month |-> month]
IsDate(v) == "year" \in DOMAIN v

\* an out-of-range timestamp: OverflowError or OSError, as the platform's time_t decides
PlatformError == [error |-> "OverflowError"]
PlatformErrors == {"OverflowError", "OSError"}

\* int(text) for a text of digits
RECURSIVE int(_)
int(text) ==
    IF Len(text) = 0 THEN 0
    ELSE 10 * int(SubSeq(text, 1, Len(text) - 1)) + DigitValue(SubSeq(text, Len(text), Len(text)))

\* the date of the day `days` after 1970-01-01 in the proleptic Gregorian calendar
CivilFromDays(days) ==
    LET z == days + 719468
        era == z \div 146097
        doe == z - era * 146097
        yoe == (doe - doe \div 1460 + doe \div 36524 - doe \div 146096) \div 365
        doy == doe - (365 * yoe + yoe \div 4 - yoe \div 100)
        mp == (5 * doy + 2) \div 153
        month == IF mp < 10 THEN mp + 3 ELSE mp - 9
        year == yoe + era * 400 + (IF month <= 2 THEN 1 ELSE 0)
    IN  Date(year, month)

\* datetime.fromtimestamp(float(value), tz=timezone.utc): a number beyond year 9999
\* raises ValueError, one beyond the platform's time_t raises OverflowError or OSError
fromtimestamp(value) ==
    IF value.scale = 0 THEN CivilFromDays(value.number \div 86400)
    ELSE IF value.scale < 16 THEN ValueError
    ELSE PlatformError

\* the days of a month
DaysIn(year, month) ==
    IF month = 2
    THEN (IF year % 4 = 0 /\ (year % 100 # 0 \/ year % 400 = 0) THEN 29 ELSE 28)
    ELSE IF month \in {4, 6, 9, 11} THEN 30 ELSE 31

IsCalendarDate(year, month, day) ==
    /\ year \in 1..9999
    /\ month \in 1..12
    /\ day \in 1..DaysIn(year, month)

\* str.replace("Z", "+00:00")
RECURSIVE replaceZ(_)
replaceZ(text) ==
    IF text = "" THEN ""
    ELSE (IF SubSeq(text, 1, 1) = "Z" THEN "+00:00" ELSE SubSeq(text, 1, 1))
            \o replaceZ(Tail(text))

\* datetime.fromisoformat, for YYYY-MM-DD, YYYY-MM-DDTHH:MM:SS and the latter with
\* an offset +HH:MM or -HH:MM; any other text raises ValueError
fromisoformat(text) ==
    IF /\ Len(text) \in {10, 19, 25}
       /\ isdigit(SubSeq(text, 1, 4)) /\ SubSeq(text, 5, 5) = "-"
       /\ isdigit(SubSeq(text, 6, 7)) /\ SubSeq(text, 8, 8) = "-"
       /\ isdigit(SubSeq(text, 9, 10))
       /\ IsCalendarDate(int(SubSeq(text, 1, 4)), int(SubSeq(text, 6, 7)),
                         int(SubSeq(text, 9, 10)))
       /\ Len(text) >= 19 =>
             /\ SubSeq(text, 11, 11) \in {"T", " "}
             /\ isdigit(SubSeq(text, 12, 13)) /\ int(SubSeq(text, 12, 13)) < 24
             /\ SubSeq(text, 14, 14) = ":"
             /\ isdigit(SubSeq(text, 15, 16)) /\ int(SubSeq(text, 15, 16)) < 60
             /\ SubSeq(text, 17, 17) = ":"
             /\ isdigit(SubSeq(text, 18, 19)) /\ int(SubSeq(text, 18, 19)) < 60
       /\ Len(text) = 25 =>
             /\ SubSeq(text, 20, 20) \in {"+", "-"}
             /\ isdigit(SubSeq(text, 21, 22)) /\ int(SubSeq(text, 21, 22)) < 24
             /\ SubSeq(text, 23, 23) = ":"
             /\ isdigit(SubSeq(text, 24, 25)) /\ int(SubSeq(text, 24, 25)) < 60
    THEN Date(int(SubSeq(text, 1, 4)), int(SubSeq(text, 6, 7)))
    ELSE ValueError

\* the parts of a text between its "-" characters
RECURSIVE splitDash(_)
splitDash(text) ==
    LET dashes == { i \in 1..Len(text) : SubSeq(text, i, i) = "-" }
    IN  IF dashes = {} THEN <<text>>
        ELSE LET n == CHOOSE i \in dashes : \A j \in dashes : i <= j
             IN  <<SubSeq(text, 1, n - 1)>> \o splitDash(SubSeq(text, n + 1, Len(text)))

\* datetime.strptime(text, "%Y-%m-%d"): four digits, then one or two, then one or two
strptime(text) ==
    LET parts == splitDash(text)
    IN  IF /\ Len(parts) = 3
           /\ Len(parts[1]) = 4 /\ isdigit(parts[1])
           /\ Len(parts[2]) \in {1, 2} /\ isdigit(parts[2])
           /\ Len(parts[3]) \in {1, 2} /\ isdigit(parts[3])
           /\ IsCalendarDate(int(parts[1]), int(parts[2]), int(parts[3]))
        THEN Date(int(parts[1]), int(parts[2]))
        ELSE ValueError

\* _coerce_datetime: a datetime, None (Null), or the error fromtimestamp raises
_coerce_datetime(value) ==
    IF IsBool(value) THEN fromtimestamp(Number(IF value.bool THEN 1 ELSE 0, 0))
    ELSE IF IsNumber31(value) THEN fromtimestamp(value)
    ELSE IF IsStr(value)
    THEN LET stripped == strip(value.str)
         IN  IF stripped = "" THEN Null
             ELSE LET normalized == replaceZ(stripped)
                  IN  IF IsDate(fromisoformat(normalized)) THEN fromisoformat(normalized)
                      ELSE IF IsDate(strptime(normalized)) THEN strptime(normalized)
                      ELSE Null
    ELSE Null

\* _extract_activity_datetime, from the i-th of _TIME_FIELDS on: the first datetime a
\* field that is not None gives; an error of _coerce_datetime ends the search
RECURSIVE _extract_activity_datetime(_, _)
_extract_activity_datetime(activity, i) ==
    IF i > Len(_TIME_FIELDS) THEN ValueError
    ELSE LET value == get(activity, _TIME_FIELDS[i])
         IN  IF value = Null THEN _extract_activity_datetime(activity, i + 1)
             ELSE LET dt == _coerce_datetime(value)
                  IN  IF dt = Null THEN _extract_activity_datetime(activity, i + 1)
                      ELSE dt

\* determine_activity_month: the key (dt.year, dt.month), or the error raised on the way
determine_activity_month(activity) ==
    LET dt == _extract_activity_datetime(activity, 1)
    IN  IF IsDate(dt) THEN [key |-> <<dt.year, dt.month>>] ELSE dt

\* the values a time field may have
TimeValues ==
    {Null, Str("2024-02-01T12:00:00Z"), Str("2024-3-9"), Str(" 2023-11-05 "),
     Str("2024-02-30"), Str("garbage"), Str("  "), Number(1600000000, 0), Bool(TRUE),
     Number(1700000000, 3), Number(1, 19), Array(<<>>)}

\* activity records with at most two of the time fields
MonthRecords ==
    UNION { [names -> TimeValues] :
              names \in { s \in SUBSET { _TIME_FIELDS[i] : i \in 1..Len(_TIME_FIELDS) } :
                            Cardinality(s) <= 2 } }

\* a few records of every kind: with a time text, with a date text, with an epoch
\* number, without time field, with an epoch in milliseconds, with a number beyond time_t
BucketRecords ==
    { [name \in {"startTime"} |-> Str("2024-02-01T12:00:00Z")],
      [name \in {"startDate"} |-> Str("2024-02-10")],
      [name \in {"startTime"} |-> Number(1600000000, 0)],
      [name \in {} |-> Null],
      [name \in {"startTime"} |-> Number(1700000000, 3)],
      [name \in {"startTime"} |-> Number(1, 19)] }

\* determine_activity_month of every record
Months == [record \in MonthRecords \cup BucketRecords |-> determine_activity_month(record)]

\* the record as the n-th activity of the iterable, which gives it its logId
WithLogId(record, n) ==
    [name \in DOMAIN record \cup {"logId"} |-> IF name = "logId" THEN Num(n) ELSE record[name]]

\* bucket_activities_by_month is called: no bucket, nothing skipped
BucketBegin ==
    /\ bucketing = "idle"
    /\ buckets' = <<>>
    /\ skipped' = 0
    /\ consumed' = <<>>
    /\ bucketing' = "running"
    /\ UNCHANGED <<programVars, tokenStoreVars, fetchVars, recordChoices, recordLimit>>

\* the next activity has a month: buckets[(year, month)].append(activity)
BucketActivity ==
    /\ bucketing = "running"
    /\ Len(consumed) < recordLimit
    /\ \E record \in recordChoices :
          LET activity == WithLogId(record, Len(consumed) + 1)
              key == Months[record].key
          IN  /\ ~IsError(Months[record])
              /\ consumed' = Append(consumed, activity)
              /\ buckets' = [k \in DOMAIN buckets \cup {key} |->
                                IF k = key
                                THEN Append(IF k \in DOMAIN buckets THEN buckets[k] ELSE <<>>,
                                            activity)
                                ELSE buckets[k]]
    /\ UNCHANGED <<programVars, tokenStoreVars, fetchVars, recordChoices, recordLimit,
                   skipped, bucketing>>

\* determine_activity_month raises ValueError: skipped += 1; continue
CountSkipped ==
    /\ bucketing = "running"
    /\ Len(consumed) < recordLimit
    /\ \E record \in recordChoices :
          /\ Months[record] = ValueError
          /\ consumed' = Append(consumed, WithLogId(record, Len(consumed) + 1))
    /\ skipped' = skipped + 1
    /\ UNCHANGED <<programVars, tokenStoreVars, fetchVars, recordChoices, recordLimit,
                   buckets, bucketing>>

\* determine_activity_month raises an error that is no ValueError: it leaves
\* bucket_activities_by_month, which returns nothing
AbortBucketing ==
    /\ bucketing = "running"
    /\ Len(consumed) < recordLimit
    /\ \E record \in recordChoices :
          /\ Months[record] = PlatformError
          /\ consumed' = Append(consumed, WithLogId(record, Len(consumed) + 1))
    /\ bucketing' \in PlatformErrors
    /\ UNCHANGED <<programVars, tokenStoreVars, fetchVars, recordChoices, recordLimit,
                   buckets, skipped>>

\* the iterable is exhausted: return buckets, skipped
BucketReturn ==
    /\ bucketing = "running"
    /\ bucketing' = "done"
    /\ UNCHANGED <<programVars, tokenStoreVars, fetchVars, recordChoices, recordLimit,
                   consumed, buckets, skipped>>

NextBucket ==
    \/ BucketBegin
    \/ BucketActivity
    \/ CountSkipped
    \/ AbortBucketing
    \/ BucketReturn

\* nothing but the bucketing runs
BucketingOnly ==
    /\ ClientAtRest
    /\ NoScan
    /\ NoTool
    /\ NoTokenStore
    /\ NoFetch
    /\ consumed = <<>>
    /\ buckets = <<>>
    /\ skipped = 0
    /\ bucketing = "idle"

\* an iterable of up to MaxRecords of the BucketRecords
InitBucket ==
    /\ BucketingOnly
    /\ recordChoices = BucketRecords
    /\ recordLimit = MaxRecords

SpecBucket == InitBucket /\ [][NextBucket]_vars

\* an iterable of one record, which has up to two time fields of any value
InitMonth ==
    /\ BucketingOnly
    /\ recordChoices = MonthRecords
    /\ recordLimit = 1

SpecMonth == InitMonth /\ [][NextBucket]_vars

---------------------------------------------------------------------------
(* tcx-to-kml.py and merge_kml.py: conversion and merge of local track files *)

MaxTracks == 2          \* most input files under the input directory

\* what lies at an output path: nothing, the content that was there before the tool ran,
\* or the document the tool saved
Missing == "missing"
OldContent == "old"
NewContent == "new"

\* what a .tcx input holds, and what a .kml input holds
TcxKinds == {"points", "no points", "unparseable"}
KmlKinds == {"tracks", "no tracks", "unparseable"}

\* variant: the output is saved whether or not a file is there already
convert_tcx_to_kml_unguarded(kind, exists, overwrite) ==
    IF kind = "no points"
    THEN [success |-> FALSE, saved |-> FALSE, error |-> "No GPS points found in TCX file"]
    ELSE IF kind = "unparseable"
    THEN [success |-> FALSE, saved |-> FALSE, error |-> "str(e)"]
    ELSE [success |-> TRUE, saved |-> TRUE, error |-> ""]

\* convert_tcx_to_kml(tcx_path, kml_path, overwrite): the ConversionResult, and whether
\* kml.save(kml_path) was reached
convert_tcx_to_kml(kind, exists, overwrite) ==
    IF exists /\ ~overwrite
    THEN [success |-> FALSE, saved |-> FALSE, error |-> "Output file already exists"]
    ELSE IF kind = "no points"
    THEN [success |-> FALSE, saved |-> FALSE, error |-> "No GPS points found in TCX file"]
    ELSE IF kind = "unparseable"
    THEN [success |-> FALSE, saved |-> FALSE, error |-> "str(e)"]
    ELSE [success |-> TRUE, saved |-> TRUE, error |-> ""]

\* parse_kml_file: the number of LineStrings extracted
parse_kml_file(kind) == IF kind = "tracks" THEN 1 ELSE 0

\* variant: the merged document is saved whether or not a file is there already
merge_kml_files_unguarded(extracted, dry_run_, exists, overwrite) ==
    IF \A i \in 1..Len(extracted) : extracted[i].tracks = 0
    THEN [raised |-> TRUE, saved |-> FALSE]
    ELSE IF dry_run_
    THEN [raised |-> FALSE, saved |-> FALSE]
    ELSE [raised |-> FALSE, saved |-> TRUE]

\* merge_kml_files after its loop: MergeError without tracks, the early return of a dry
\* run, MergeError for an output that exists, else document.save(output_file)
merge_kml_files(extracted, dry_run_, exists, overwrite) ==
    IF \A i \in 1..Len(extracted) : extracted[i].tracks = 0
    THEN [raised |-> TRUE, saved |-> FALSE]
    ELSE IF dry_run_
    THEN [raised |-> FALSE, saved |-> FALSE]
    ELSE IF exists /\ ~overwrite
    THEN [raised |-> TRUE, saved |-> FALSE]
    ELSE [raised |-> FALSE, saved |-> TRUE]

\* convert_directory: `if not tcx_files: return 1`
ConvertBegin ==
    /\ tool = <<"tcx-to-kml", "main">>
    /\ IF sources = <<>>
       THEN /\ tool' = <<"tcx-to-kml", "exited">>
            /\ exit_code' = 1
       ELSE /\ tool' = <<"tcx-to-kml", "files">>
            /\ UNCHANGED exit_code
    /\ UNCHANGED <<coreVars, tokenStoreVars, fetchVars, bucketVars, args, sources, outputs,
                   results>>

\* `for tcx_file in tcx_files`: convert_tcx_to_kml(tcx_file, kml_file, overwrite)
ConvertFile ==
    /\ tool = <<"tcx-to-kml", "files">>
    /\ Len(results) < Len(sources)
    /\ LET i == Len(results) + 1
           result == convert_tcx_to_kml(sources[i], outputs[i] # Missing,
                                        args.overwrite_destination)
       IN  /\ results' = Append(results, result)
           /\ outputs' = IF result.saved THEN [outputs EXCEPT ![i] = NewContent] ELSE outputs
    /\ UNCHANGED <<coreVars, tokenStoreVars, fetchVars, bucketVars, tool, args, sources,
                   exit_code>>

\* `return 0 if any(r.success for _, r in results) else 1`
ConvertReturn ==
    /\ tool = <<"tcx-to-kml", "files">>
    /\ Len(results) = Len(sources)
    /\ tool' = <<"tcx-to-kml", "exited">>
    /\ exit_code' = IF \E i \in 1..Len(results) : results[i].success THEN 0 ELSE 1
    /\ UNCHANGED <<coreVars, tokenStoreVars, fetchVars, bucketVars, args, sources, outputs,
                   results>>

\* merge_kml_files: `if not kml_files: raise MergeError`; main returns 1 on MergeError
MergeBegin ==
    /\ tool = <<"merge-kml", "main">>
    /\ IF sources = <<>>
       THEN /\ tool' = <<"merge-kml", "exited">>
            /\ exit_code' = 1
       ELSE /\ tool' = <<"merge-kml", "files">>
            /\ UNCHANGED exit_code
    /\ UNCHANGED <<coreVars, tokenStoreVars, fetchVars, bucketVars, args, sources, outputs,
                   results>>

\* `for kml_file in kml_files`: parse_kml_file raises MergeError for a file that is no
\* XML; a file without LineStrings is skipped, any other is merged
MergeParse ==
    /\ tool = <<"merge-kml", "files">>
    /\ Len(results) < Len(sources)
    /\ LET kind == sources[Len(results) + 1]
       IN  IF kind = "unparseable"
           THEN /\ tool' = <<"merge-kml", "exited">>
                /\ exit_code' = 1
                /\ UNCHANGED results
           ELSE /\ results' = Append(results, [tracks |-> parse_kml_file(kind)])
                /\ UNCHANGED <<tool, exit_code>>
    /\ UNCHANGED <<coreVars, tokenStoreVars, fetchVars, bucketVars, args, sources, outputs>>

\* the end of merge_kml_files, and main's exit code
MergeWrite ==
    /\ tool = <<"merge-kml", "files">>
    /\ Len(results) = Len(sources)
    /\ LET end == merge_kml_files(results, args.dry_run, outputs[1] # Missing, args.overwrite)
       IN  /\ outputs' = IF end.saved THEN <<NewContent>> ELSE outputs
           /\ exit_code' = IF end.raised THEN 1 ELSE 0
    /\ tool' = <<"merge-kml", "exited">>
    /\ UNCHANGED <<coreVars, tokenStoreVars, fetchVars, bucketVars, args, sources, results>>

NextTools ==
    \/ ConvertBegin
    \/ ConvertFile
    \/ ConvertReturn
    \/ MergeBegin
    \/ MergeParse
    \/ MergeWrite

\* all sequences of up to n elements of S
SeqsUpTo(S, n) == UNION { [1..k -> S] : k \in 0..n }

\* tcx-to-kml.py --in-dir --out-dir on up to MaxTracks .tcx files, each output file there
\* already or not; or merge-kml.py on up to MaxTracks .kml files, the output file there
\* already or not
InitTools ==
    /\ ClientAtRest
    /\ NoScan
    /\ NoTokenStore
    /\ NoFetch
    /\ NoBuckets
    /\ results = <<>>
    /\ exit_code = 0
    /\ \/ /\ tool = <<"tcx-to-kml", "main">>
          /\ args \in [overwrite_destination : BOOLEAN]
          /\ sources \in SeqsUpTo(TcxKinds, MaxTracks)
          /\ outputs \in [1..Len(sources) -> {Missing, OldContent}]
       \/ /\ tool = <<"merge-kml", "main">>
          /\ args \in [overwrite : BOOLEAN, dry_run : BOOLEAN]
          /\ sources \in SeqsUpTo(KmlKinds, MaxTracks)
          /\ outputs \in [1..1 -> {Missing, OldContent}]

SpecTools == InitTools /\ [][NextTools]_vars

---------------------------------------------------------------------------
(* download-tcx.py: main *)

MainItems == 2          \* longest plan of SpecMain, loaded or collected

\* the paths main looks for: --plan-file (or --resume-from) and --activities-dir
PlanPath == "data/tcx-files.json"
ActivitiesDir == "data/fitbit_activities"

\* main up to the plan: the missing resume file, load_plan of a plan file that exists,
\* the missing activities directory, or the scan
MainBegin ==
    /\ tool = <<"download-tcx", "main">>
    /\ IF args.resume_from /\ PlanPath \notin existing
       THEN /\ tool' = <<"download-tcx", "exited">>
            /\ exit_code' = 1
            /\ UNCHANGED items
       ELSE IF PlanPath \in existing
       THEN /\ items' = load_plan(planFile)
            /\ tool' = <<"download-tcx", "download_plan">>
            /\ UNCHANGED exit_code
       ELSE IF ActivitiesDir \notin existing
       THEN /\ tool' = <<"download-tcx", "exited">>
            /\ exit_code' = 1
            /\ UNCHANGED items
       ELSE /\ tool' = <<"download-tcx", "collect_plan">>
            /\ UNCHANGED <<items, exit_code>>
    /\ UNCHANGED <<planFile, pc, requestVars, directoryVars, tokenStoreVars, fetchVars,
                   bucketVars, args, sources, outputs, results>>

\* `plan = downloader.collect_plan(activities_dir, output_dir)`
MainCollectPlan ==
    /\ tool = <<"download-tcx", "collect_plan">>
    /\ CollectPlanBegin

\* save_plan(plan, plan_path) has written the plan file
MainPlanCreated ==
    /\ tool = <<"download-tcx", "collect_plan">>
    /\ pc = "planned"
    /\ existing' = existing \cup {PlanPath}
    /\ tool' = <<"download-tcx", "download_plan">>
    /\ pc' = "idle"
    /\ UNCHANGED <<items, planFile, requestVars, activityChoices, activityLimit, shardNo,
                   recNo, scanned, collected, seen_urls, loaded, filePayload, shardChoices,
                   tokenStoreVars, fetchVars, bucketVars, args, sources, outputs, results,
                   exit_code>>

\* `downloader.download_plan(plan, dry_run=True)`, or
\* `downloader.download_plan(plan, plan_path=plan_path)`
MainDownloadPlan ==
    /\ tool = <<"download-tcx", "download_plan">>
    /\ DownloadPlanBegin

\* variant: a run with failed items ends with exit code 1
MainReturnFailsOnErrors ==
    /\ tool = <<"download-tcx", "download_plan">>
    /\ pc = "done"
    /\ runsLeft = 0
    /\ tool' = <<"download-tcx", "exited">>
    /\ exit_code' = IF summary.failed > 0 THEN 1 ELSE 0
    /\ UNCHANGED <<items, planFile, pc, requestVars, directoryVars, tokenStoreVars,
                   fetchVars, bucketVars, args, sources, outputs, results>>

\* download_plan returned its summary: main logs it and returns
MainReturn ==
    /\ tool = <<"download-tcx", "download_plan">>
    /\ pc = "done"
    /\ runsLeft = 0
    /\ tool' = <<"download-tcx", "exited">>
    /\ exit_code' = 0
    /\ UNCHANGED <<items, planFile, pc, requestVars, directoryVars, tokenStoreVars,
                   fetchVars, bucketVars, args, sources, outputs, results>>

NextMain ==
    \/ MainBegin
    \/ MainCollectPlan
    \/ SkipFile
    \/ OpenFile
    \/ SkipActivity
    \/ AppendItem
    \/ EndOfFile
    \/ CollectReturn
    \/ MainPlanCreated
    \/ MainDownloadPlan
    \/ SkipDownloaded
    \/ StartItem
    \/ EnsureFreshToken
    \/ Send
    \/ HandleUnauthorized
    \/ HandleRateLimit
    \/ HandleError
    \/ HandleSuccess
    \/ ItemFailed
    \/ WriteFile
    \/ MarkDownloaded
    \/ SavePlan
    \/ Finish
    \/ MainReturn

\* the activities a scan of main may meet: a track, another track, a link that is no track
MainActivities ==
    { Activity(Num(32), Bool(TRUE), Str(TrackUrl), Null),
      Activity(Num(32), Bool(TRUE), Str(OtherTrackUrl), Null),
      Activity(Num(32), Bool(TRUE), Str(PageUrl), Null) }

\* download-tcx.py started with or without --resume-from and --dry-run; the plan file
\* and the activities directory are there or not; a plan file holds any plan of up to
\* two items; the directory holds 2024/01.json with up to two of the MainActivities
InitMain ==
    /\ tool = <<"download-tcx", "main">>
    /\ args \in [resume_from : BOOLEAN, dry_run : BOOLEAN]
    /\ sources = <<>>
    /\ outputs = <<>>
    /\ results = <<>>
    /\ exit_code = 0
    /\ existing \in SUBSET {PlanPath, ActivitiesDir}
    /\ items = <<>>
    /\ planFile \in IF PlanPath \in existing
                    THEN { save_plan(plan) : plan \in PlansUpTo(MainItems) }
                    ELSE { <<>> }
    /\ ClientStarts({1}, { [i \in 1..MainItems |-> Statuses] }, {TokenReplies}, {args.dry_run}, 1)
    /\ plan_path = ~args.dry_run
    /\ PlainClient
    /\ activityChoices = MainActivities
    /\ activityLimit = MainItems
    /\ shardChoices = {2}
    /\ shardNo = 0
    /\ recNo = 0
    /\ scanned = <<>>
    /\ collected = <<>>
    /\ seen_urls = {}
    /\ loaded = <<>>
    /\ filePayload = ""
    /\ NoTokenStore
    /\ NoFetch
    /\ NoBuckets

SpecMain == InitMain /\ [][NextMain]_vars

---------------------------------------------------------------------------
(* Properties of download_plan *)

\* flags of a plan document
DocDownloaded(doc) == { i \in 1..Len(doc) : doc[i].downloaded }

\* the document lists the items of the in-memory plan, all of them, in plan order
CompleteSnapshot ==
    /\ Len(planFile) = Len(items)
    /\ \A i \in Indices : planFile[i].url = items[i].url /\ planFile[i].path = items[i].path

\* C1: with a plan_path, once an item has been downloaded the plan document equals the
\* in-memory plan whenever no checkpoint is pending (so before the next item is
\* attempted), one save_plan was made per download, and between items the document
\* marks exactly the initially downloaded items plus the k items downloaded so far.
C1_CheckpointAfterEachSuccess ==
    (plan_path /\ ~dry_run /\ pc # "idle") =>
        /\ (summary.downloaded >= 1 /\ pc # "save") =>
              /\ planFile = save_plan(items)
              /\ saves = summary.downloaded
        /\ pc \in {"loop", "done"} =>
              /\ DocDownloaded(planFile) = initialDownloaded \cup written
              /\ initialDownloaded \cap written = {}
              /\ Cardinality(written) = summary.downloaded

\* two items downloaded and checkpointed, a third one still to attempt
C1_Witness ==
    /\ plan_path /\ pc = "loop" /\ idx \in Indices
    /\ summary.downloaded = 2 /\ saves = 2
    /\ ~items[idx].downloaded

\* items whose file this call has written and which the document still marks pending
Unrecorded == { i \in Indices : items[i].path \in written /\ ~planFile[i].downloaded }

\* C2: with a plan_path and the plan persisted before the call, at every point at which
\* the process may stop the document is a complete snapshot, at most one item written
\* by this call (the one in flight) is still marked pending in it, and every item marked
\* downloaded at the start or checkpointed earlier is still marked downloaded.
C2_CrashLosesAtMostInFlight ==
    (plan_path /\ ~dry_run /\ pc # "idle") =>
        /\ CompleteSnapshot
        /\ Cardinality(Unrecorded) <= 1
        /\ Unrecorded \subseteq {idx}
        /\ initialDownloaded \subseteq DocDownloaded(planFile)
        /\ \A i \in written : i < idx => planFile[i].downloaded

\* the second download is written and flagged but not yet checkpointed; the first one,
\* checkpointed earlier, is marked in the document
C2_Witness ==
    /\ plan_path /\ pc = "save"
    /\ Unrecorded = {idx}
    /\ \E i \in written : i < idx /\ planFile[i].downloaded
    /\ initialDownloaded # {}

\* C3: an item's downloaded flag only ever goes from false to true (hence changes at most
\* once), in the in-memory plan and from one plan document to the next.
C3_FlagsOnlyRise ==
    [][ /\ Len(items') = Len(items)
        /\ Len(planFile') = Len(planFile)
        /\ \A i \in Indices : items[i].downloaded => items'[i].downloaded
        /\ \A i \in 1..Len(planFile) : planFile[i].downloaded => planFile'[i].downloaded
      ]_vars

\* a flag has gone from false to true in memory and in the document, next to an item
\* that was downloaded from the start
C3_Witness ==
    /\ plan_path /\ pc = "loop"
    /\ \E i \in written : items[i].downloaded /\ planFile[i].downloaded
    /\ \E j \in initialDownloaded : items[j].downloaded /\ planFile[j].downloaded
    /\ Cardinality(written) = 2

\* C4: an item whose fetch ends in an API error is counted as failed, keeps its flag
\* false in memory and in the document, gets no file and causes no save_plan; the loop
\* goes on, so that when download_plan returns every item of the plan was skipped as
\* already downloaded, downloaded, or counted as failed.
C4_FailureDoesNotAbort ==
    (~dry_run /\ pc # "idle") =>
        /\ pc = "raised" =>
              ~items[idx].downloaded /\ items[idx].path \notin written /\ idx \notin failedItems
        /\ \A i \in failedItems :
              /\ ~items[i].downloaded
              /\ ~planFile[i].downloaded
              /\ items[i].path \notin written
        /\ summary.failed = Cardinality(failedItems)
        /\ saves = (IF ~plan_path THEN 0
                    ELSE IF pc = "save" THEN summary.downloaded - 1
                    ELSE summary.downloaded)
        /\ failedItems \subseteq 1..(idx - 1)
        /\ pc = "done" => Indices = initialDownloaded \cup written \cup failedItems

\* the first item failed and the items after it were still processed, one downloaded
C4_Witness ==
    /\ pc = "done" /\ ~dry_run
    /\ 1 \in failedItems
    /\ \E i \in written : i > 1
    /\ \E j \in failedItems : j > 1

\* C5: an item whose flag is set when the loop reaches it causes no track request and no
\* write of its destination file, and is counted in already_downloaded.
C5_DownloadedItemsSkipped ==
    (~dry_run /\ pc # "idle") =>
        /\ initialDownloaded \cap requested = {}
        /\ \A i \in initialDownloaded : items[i].path \notin written
        /\ summary.already_downloaded = Cardinality({ i \in initialDownloaded : i < idx })

\* a finished call that skipped one item and fetched others
C5_Witness ==
    /\ pc = "done" /\ ~dry_run
    /\ summary.already_downloaded >= 1
    /\ requested # {} /\ written # {}

\* C6: a dry run sends no track request, makes no token-endpoint POST, writes no file,
\* changes no flag and makes no save_plan; its summary lists the pending items in
\* dry_run_listed, the downloaded ones in already_downloaded, and downloaded = failed = 0.
C6_DryRunTouchesNothing ==
    (dry_run /\ pc # "idle") =>
        /\ pc = "done"
        /\ requested = {} /\ sends = 0 /\ posts = 0
        /\ token.access_token = 0 /\ tokenFile = write_token_file(token)
        /\ written = {}
        /\ DownloadedSet(items) = initialDownloaded
        /\ saves = 0 /\ planFile = save_plan(items)
        /\ summary.total_items = Len(items)
        /\ summary.dry_run_listed = Cardinality(Indices \ initialDownloaded)
        /\ summary.already_downloaded = Cardinality(initialDownloaded)
        /\ summary.downloaded = 0 /\ summary.failed = 0

\* a dry run over a plan with pending and downloaded items, by a client whose token is
\* expiring and refreshable
C6_Witness ==
    /\ dry_run /\ pc = "done"
    /\ summary.dry_run_listed = 2 /\ summary.already_downloaded = 1
    /\ expiring /\ token.refresh_token /\ credentials

\* processing of item i is over: skipped, counted as failed, or written, flagged and
\* (with a plan_path) checkpointed
Finished(i) ==
    \/ i \in initialDownloaded
    \/ i \in failedItems
    \/ /\ items[i].path \in written
       /\ items[i].downloaded
       /\ plan_path => planFile[i].downloaded

\* C8: track requests follow plan order, one item at a time: every request sent so far
\* was for the item under the cursor or an earlier one, and every item before the
\* cursor is finished (its fetch, file write, flag and checkpoint, or its failure count).
C8_SequentialInPlanOrder ==
    (~dry_run /\ pc # "idle") =>
        /\ requested \subseteq 1..idx
        /\ \A i \in 1..(idx - 1) : i \in Indices /\ Finished(i)
        /\ pc \in {"fresh", "send", "response", "raised", "write"} =>
              idx \in Indices /\ ~Finished(idx)

\* the third item is about to be requested after a failed and a downloaded one, both
\* of which had requests of their own
C8_Witness ==
    /\ pc = "send" /\ idx = 3
    /\ requested = {1, 2}
    /\ failedItems = {1} /\ written = {2}

---------------------------------------------------------------------------
(* Properties of request *)

\* responses of the running request that request has already acted on
Handled(status, seen) == IF pc = "response" /\ response = status THEN seen - 1 ELSE seen

\* the request whose counters are held (the latest one that sent anything) has ended
\* in an API error: it is being raised, or its item was counted as failed
RequestFailed ==
    \/ pc = "raised"
    \/ /\ pc \in {"loop", "done"}
       /\ \E i \in requested : (\A j \in requested : j <= i) /\ i \in failedItems

\* sends made so far by a request that has just received a response: the first one, one
\* per sleep, and one for the forced refresh that succeeded
SendsAccountedFor ==
    pc = "response" => sends = 1 + sleeps + (IF retry_auth THEN 0 ELSE 1)

\* C9: in one logical request the first 401 brings exactly one forced refresh, and when
\* that refresh succeeds exactly one resend; a 401 received after it ends the request
\* with an API error and brings no further forced refresh. A forced refresh that fails
\* ends the request with an API error itself.
C9_OneRefreshPer401 ==
    (pc # "idle") =>
        /\ forced <= 1
        /\ forced = (IF Handled(401, seen401) >= 1 THEN 1 ELSE 0)
        /\ seen401 <= 2
        /\ Handled(401, seen401) = 2 => RequestFailed
        /\ retry_auth = FALSE => forced = 1
        /\ (forced = 1 /\ retry_auth) => RequestFailed
        /\ SendsAccountedFor

\* a request that was rate limited once, refreshed on its first 401, resent, and was
\* ended by a second 401
C9_Witness ==
    /\ pc = "raised" /\ response = 401
    /\ seen401 = 2 /\ forced = 1 /\ ~retry_auth
    /\ sleeps = 1 /\ sends = 3
    /\ token.access_token # 0

Min(a, b) == IF a <= b THEN a ELSE b

\* C10: with max_rate_limit_retries = N a logical request sleeps exactly once for each of
\* the first N responses 429 and goes back to send again after each sleep (every response
\* it gets was preceded by one send per sleep); a further 429 ends the request with an
\* API error, so it never sleeps more than N times and never sees more than N + 1
\* responses 429.
C10_BoundedRateLimitRetries ==
    (pc # "idle") =>
        /\ sleeps <= max_rate_limit_retries
        /\ sleeps = rate_limit_attempts
        /\ sleeps = Min(Handled(429, seen429), max_rate_limit_retries)
        /\ seen429 <= max_rate_limit_retries + 1
        /\ Handled(429, seen429) = max_rate_limit_retries + 1 => RequestFailed
        /\ SendsAccountedFor
        /\ pc \in {"fresh", "send"} => sends = sleeps + (IF retry_auth THEN 0 ELSE 1)

\* six responses 429 in a row with the default maximum of five: five sleeps, six sends,
\* and the sixth 429 raised as an API error
C10_Witness ==
    /\ max_rate_limit_retries = DefaultMaxRetries
    /\ pc = "raised" /\ response = 429
    /\ seen429 = 6 /\ sleeps = 5 /\ sends = 6 /\ seen401 = 0

---------------------------------------------------------------------------
(* Properties of two calls in a row *)

SecondRunDone == pc = "done" /\ runsLeft = 0

\* C7 as stated: the second of two calls in a row on the same plan, against servers
\* whose behaviour is fixed, returns downloaded = 0 and already_downloaded = total_items.
C7_SecondRunAllDownloaded ==
    SecondRunDone =>
        /\ summary.downloaded = 0
        /\ summary.already_downloaded = summary.total_items

\* C7 amended: the second call downloads nothing and fails on exactly the items the first
\* call failed on; already_downloaded is total_items less the first call's failures, so it
\* equals total_items exactly when the first call had no failure.
C7_SecondRunRepeatsFailures ==
    SecondRunDone =>
        /\ summary.downloaded = 0
        /\ summary.failed = prevSummary.failed
        /\ summary.already_downloaded = summary.total_items - prevSummary.failed
        /\ summary.already_downloaded =
              prevSummary.already_downloaded + prevSummary.downloaded
        /\ requested \subseteq failedItems

\* two calls on a two-item plan: the first call downloaded one item and failed on the
\* other, the second call skipped the one and failed on the other again
C7_Witness ==
    /\ SecondRunDone
    /\ prevSummary.downloaded = 1 /\ prevSummary.failed = 1
    /\ summary.already_downloaded = 1 /\ summary.failed = 1

---------------------------------------------------------------------------
(* Properties of FitbitAPIClient.request *)

\* the header is present in the 429 response and its text parses as a number
Parses(headers, name) == name \in DOMAIN headers /\ headers[name] \in Floats

\* C11: the delay slept after a 429 is max(1, Retry-After) when that header is present
\* and parses as a number; otherwise max(1, Fitbit-Rate-Limit-Reset) when that one is
\* present and parses; otherwise min(60, max(1, 2^k)), k being the number of 429s
\* already retried in this logical request. The delay is at least 1 second and, in the
\* backoff case, at most 60 seconds.
C11_DelayAfter429 ==
    sleeps > 0 =>
        LET k == sleeps - 1
            backoff == ~Parses(lastHeaders, "Retry-After")
                       /\ ~Parses(lastHeaders, "Fitbit-Rate-Limit-Reset")
        IN  /\ delay = IF Parses(lastHeaders, "Retry-After")
                       THEN Max(1, float(lastHeaders["Retry-After"]))
                       ELSE IF Parses(lastHeaders, "Fitbit-Rate-Limit-Reset")
                       THEN Max(1, float(lastHeaders["Fitbit-Rate-Limit-Reset"]))
                       ELSE Min(60, Max(1, Pow2(k)))
            /\ delay >= 1
            /\ backoff => delay <= 60

\* the seventh retry of a request slept the capped backoff: 2^6 seconds would exceed it
C11_Witness ==
    /\ sleeps = 7
    /\ lastHeaders = NoHeaders
    /\ delay = MaxBackoff

\* the response in hand is an error that request does not retry: neither a 401 with the
\* refresh still available nor a 429 below the retry maximum
TerminalError ==
    /\ pc = "response"
    /\ response >= 400
    /\ ~(response = 401 /\ retry_auth)
    /\ ~(response = 429 /\ rate_limit_attempts < max_rate_limit_retries)

\* C12: a response with status >= 400 that is neither a retryable 401 nor a retryable
\* 429 ends the logical request at once with an API error: the request raises, and the
\* error reaches download_plan, without another send, sleep or token refresh.
C12_ErrorTerminatesRequest ==
    [][ /\ TerminalError =>
            /\ pc' = "raised"
            /\ UNCHANGED <<sends, sleeps, posts, forced, token, tokenFile>>
        /\ pc = "raised" =>
            /\ pc' = "loop"
            /\ idx \in failedItems'
            /\ UNCHANGED <<sends, sleeps, posts, forced, token, tokenFile>>
      ]_vars

\* a 500 answered the only send of a request, and the request raised
C12_Witness ==
    /\ pc = "raised"
    /\ response = 500
    /\ sends = 1
    /\ sleeps = 0
    /\ posts = 0

\* C13: before a send, a stored token that is expiring is refreshed first, the POST to
\* the token endpoint preceding the send; when no refresh token is stored, no call to
\* the token endpoint is made and the request is still sent, with the stale access
\* token, instead of failing.
C13_RefreshBeforeSend ==
    [][ /\ pc = "fresh" =>
            /\ (token.refresh_token /\ credentials /\ will_expire_within(token, expiring)) =>
                    /\ posts' = posts + 1
                    /\ sends' = sends
                    /\ pc' = "send" => token' # token
            /\ (pc' = "send" /\ token' = token /\ will_expire_within(token, expiring')) =>
                    ~token.refresh_token
            /\ ~token.refresh_token =>
                    /\ pc' = "send"
                    /\ posts' = posts
                    /\ UNCHANGED <<token, tokenFile>>
        /\ pc = "send" =>
            /\ sends' = sends + 1
            /\ posts' = posts
            /\ sentToken' = token.access_token
            /\ UNCHANGED <<token, tokenFile>>
      ]_vars

\* the first send of a request went out after one refresh, carrying the new token
C13_Witness ==
    /\ pc = "response"
    /\ sends = 1
    /\ posts = 1
    /\ forced = 0
    /\ granted.ok
    /\ sentToken = granted.access_token

\* an expiring token without refresh token was sent as it is, the token endpoint untouched
C13_StaleSent ==
    /\ pc = "response"
    /\ sends = 1
    /\ posts = 0
    /\ ~token.refresh_token
    /\ will_expire_within(token, expiring)
    /\ sentToken = token.access_token

\* C14: every send carries the access token the client holds at that moment in its
\* Authorization header, whatever Authorization header the caller supplied; a forced
\* refresh that succeeds after a 401 replaces the rejected token by the one the token
\* endpoint returned, so that the resend carries the refreshed token.
C14_SendsCarryCurrentToken ==
    [][ /\ pc = "send" =>
            /\ sentToken' = token.access_token
            /\ sentToken' # CallerToken
        /\ pc' = "response" => sentToken' = token'.access_token
        /\ (pc = "response" /\ response = 401 /\ retry_auth /\ pc' = "fresh") =>
            /\ granted'.ok
            /\ token'.access_token = granted'.access_token
            /\ token'.access_token # sentToken
        /\ (pc = "fresh" /\ token' # token) =>
            /\ granted'.ok
            /\ token'.access_token = granted'.access_token
            /\ token'.access_token # token.access_token
      ]_vars

\* the resend that follows a forced refresh went out with the refreshed token although
\* the caller had passed an Authorization header of its own
C14_Witness ==
    /\ pc = "response"
    /\ callerHeaders = OwnAuthorizationHeaders
    /\ forced = 1
    /\ posts = 1
    /\ sends = 2
    /\ ~retry_auth
    /\ granted.ok
    /\ sentToken = granted.access_token

\* C15: after every successful refresh the in-memory token and the token file both hold
\* the access token and the refresh token the token endpoint returned; the in-memory
\* token and the persisted token agree whenever no refresh is in progress.
C15_TokenAndFileAgree ==
    /\ load_token_file(tokenFile).access_token = token.access_token
    /\ load_token_file(tokenFile).refresh_token = token.refresh_token
    /\ granted.ok =>
        /\ token.access_token = granted.access_token
        /\ token.refresh_token = granted.refresh_token
        /\ tokenFile.access_token = granted.access_token
        /\ tokenFile.refresh_token = granted.refresh_token

\* a refresh before the send replaced the token the client was constructed with
C15_Witness ==
    /\ pc = "send"
    /\ posts = 1
    /\ forced = 0
    /\ granted.ok
    /\ granted.refresh_token
    /\ token.access_token # 0
    /\ tokenFile.access_token = granted.access_token

\* the forced refresh of the running or last request could not proceed: no refresh
\* token is stored, or the client credentials are unset
AuthFailure ==
    /\ forced = 1
    /\ retry_auth
    /\ ~token.refresh_token \/ ~credentials

\* C16: when a forced refresh cannot proceed because no refresh token is stored or the
\* client credentials are unset, the failure aborts the run of download_plan: the item
\* is not counted as failed and no later item is gone on to.
C16_AuthFailureAbortsRun ==
    AuthFailure =>
        /\ pc = "raised"
        /\ \A i \in requested : (\A j \in requested : j <= i) => i \notin failedItems

---------------------------------------------------------------------------
(* Properties of collect_plan, save_plan and load_plan *)

\* the activity would be collected if its URL had not been seen
Qualifies(activity) == Appends(activity, {})

\* entry k of the scan is the first qualifying one with its URL
FirstOccurrence(k) ==
    /\ Qualifies(scanned[k].activity)
    /\ \A j \in 1..(k - 1) :
        Qualifies(scanned[j].activity) =>
            Helpers[scanned[j].activity].link # Helpers[scanned[k].activity].link

\* the positions of the first occurrences, in scan order
FirstOccurrences ==
    SelectSeq([k \in 1..Len(scanned) |-> k], LAMBDA k : FirstOccurrence(k))

\* C17: no two items of a collected plan share a URL; a URL that qualifying activities
\* carry more than once, within a file or across files, yields exactly one item, and the
\* item comes from the first of them in scan order (files in sorted order, activities in
\* file order): its path is the one built from that file's year and month.
C17_OneItemPerUrl ==
    /\ \A i, j \in 1..Len(collected) : collected[i].url = collected[j].url => i = j
    /\ Len(collected) = Len(FirstOccurrences)
    /\ \A n \in 1..Len(collected) :
        LET first == scanned[FirstOccurrences[n]]
            link == Helpers[first.activity].link
            when == ShardTimes[first.file]
        IN  /\ collected[n].url = link
            /\ collected[n].path =
                    output_file(when.year, when.month, Helpers[first.activity].tcx_id)

\* the same URL qualified in two files, and within the second file twice; the plan
\* returned holds one item, whose path names the first file
C17_Witness ==
    /\ pc = "planned"
    /\ Len(items) = 1
    /\ items[1].path = "2023/11_a.tcx"
    /\ \E j, k, l \in 1..Len(scanned) :
        /\ j < k /\ k < l
        /\ scanned[j].file = 1
        /\ scanned[k].file = 2
        /\ scanned[l].file = 2
        /\ \A m \in {j, k, l} :
            /\ Qualifies(scanned[m].activity)
            /\ Helpers[scanned[m].activity].link = TrackUrl

\* the distances that are a number or a numeric text greater than 0 (True is the number
\* 1 of the language), and the hasGps values that are true or a true-valued text
PositiveDistances == { Num(32), Bool(TRUE), Str("3.2"), Str(" 7 ") }
TrueGps == { Bool(TRUE), Str("true"), Str(" Yes "), Str("1"), Str("TRUE") }

C19_FlagIsFileExists ==
    /\ \A i \in 1..Len(collected) : collected[i].downloaded <=> collected[i].path \in existing
    /\ pc = "planned" =>
        /\ DownloadedSet(items) = { i \in 1..Len(items) : items[i].path \in existing }
        /\ DocDownloaded(planFile) = DownloadedSet(items)

\* a plan was returned with one item whose file is on disk and one whose file is not
C19_Witness ==
    /\ pc = "planned"
    /\ Len(items) = 2
    /\ items[1].path \in existing
    /\ items[1].downloaded
    /\ items[2].path \notin existing
    /\ ~items[2].downloaded

\* C20: load_plan(save_plan(p)) equals p: the same number of items, in the same order,
\* each with the same url, path and downloaded flag; every entry save_plan writes has
\* exactly the fields url, path and downloaded; load_plan accepts documents whose entries
\* carry further fields.
C20_LoadInvertsSave ==
    /\ pc \in {"planned", "resumed"} =>
        /\ \A i \in 1..Len(planFile) : DOMAIN planFile[i] = {"url", "path", "downloaded"}
        /\ \A names \in ExtraFields : load_plan(WithFields(planFile, names)) = items
        /\ load_plan(save_plan(items)) = items
    /\ pc = "resumed" =>
        /\ Len(loaded) = Len(items)
        /\ \A i \in 1..Len(items) :
            /\ loaded[i].url = items[i].url
            /\ loaded[i].path = items[i].path
            /\ loaded[i].downloaded = items[i].downloaded

\* a plan of a downloaded and a pending item was saved and loaded back
C20_Witness ==
    /\ pc = "resumed"
    /\ Len(loaded) = 2
    /\ loaded[1].downloaded
    /\ ~loaded[2].downloaded
    /\ loaded[1].url # loaded[2].url
    /\ loaded = items

---------------------------------------------------------------------------
(* Properties of the token helpers *)

\* C21: will_expire_within answers TRUE exactly when the token has an expires_at and
\* that instant is at or before now + delta; a token without expires_at is never
\* reported, and one expiring exactly at now + delta is.
C21_ExpiringIffAtOrBeforeHorizon ==
    verdict.asked =>
        verdict.result = (/\ tokenObj.expires_at # Null
                          /\ tokenObj.expires_at.instant <= now + verdict.delta)

\* the default delta is used and the token expires exactly at now + one minute
C21_Witness ==
    /\ verdict.asked
    /\ verdict.result
    /\ verdict.delta = DefaultLookahead
    /\ tokenObj.expires_at # Null
    /\ tokenObj.expires_at.instant = now + DefaultLookahead

\* the token path held a document without access_token
LacksAccessToken == originalDoc # NoDocument /\ "access_token" \notin DOMAIN originalDoc

\* C22: loading a token document without access_token fails (KeyError, or the
\* ValueError of an unparseable expires_at, which is raised first); no token is built
\* and the client is not constructed, so nothing is asked of a token or written.
C22_MissingAccessTokenFailsLoad ==
    (LacksAccessToken /\ startup # "start") =>
        /\ startup \in {"KeyError", "ValueError"}
        /\ startup = "ValueError" => ~IsIsoFormat(originalDoc["expires_at"].str)
        /\ tokenObj = Null
        /\ tokenDoc = originalDoc
        /\ ~verdict.asked

\* a document with every other field well-formed was loaded and the load raised KeyError
C22_Witness ==
    /\ LacksAccessToken
    /\ startup = "KeyError"
    /\ "refresh_token" \in DOMAIN originalDoc
    /\ truthy(originalDoc["refresh_token"])

\* the optional fields of a token, and whether the token holds nothing for one
OptionalFields == {"refresh_token", "expires_at", "scope"}

IsEmpty(tok, field) ==
    IF field = "refresh_token" THEN ~truthy(tok.refresh_token)
    ELSE IF field = "expires_at" THEN tok.expires_at = Null
    ELSE tok.scope = Null \/ Len(tok.scope.array) = 0

\* the raw payload of the token holds the key
InRaw(tok, field) == tok.raw # Null /\ field \in DOMAIN tok.raw

\* C23 as stated: the written document always holds access_token and token_type and holds
\* no entry for an optional field that is empty in the token, whatever the token was
\* built from.
C23_SavedOmitsEmptyFields ==
    startup = "saved" =>
        /\ {"access_token", "token_type"} \subseteq DOMAIN tokenDoc
        /\ \A field \in OptionalFields :
              IsEmpty(tokenObj, field) => field \notin DOMAIN tokenDoc

\* C23 as amended: the written document always holds access_token and token_type; an
\* optional field that is empty in the token has an entry exactly when the token's raw
\* payload holds that key, and the entry is then the raw (empty) value; an optional field
\* that is not empty always has an entry.
C23_SavedOmitsEmptyFieldsNotInRaw ==
    startup = "saved" =>
        /\ {"access_token", "token_type"} \subseteq DOMAIN tokenDoc
        /\ tokenDoc["access_token"] = tokenObj.access_token
        /\ tokenDoc["token_type"] = tokenObj.token_type
        /\ \A field \in OptionalFields :
              IF IsEmpty(tokenObj, field)
              THEN /\ field \in DOMAIN tokenDoc <=> InRaw(tokenObj, field)
                   /\ field \in DOMAIN tokenDoc => tokenDoc[field] = tokenObj.raw[field]
              ELSE field \in DOMAIN tokenDoc

\* a token loaded from a document with "refresh_token": null was written, and the written
\* document holds the null entry again
C23_Witness ==
    /\ startup = "saved"
    /\ InRaw(tokenObj, "refresh_token")
    /\ tokenObj.refresh_token = Null
    /\ "refresh_token" \in DOMAIN tokenDoc
    /\ tokenDoc["refresh_token"] = Null
    /\ IsEmpty(tokenObj, "scope")
    /\ "scope" \notin DOMAIN tokenDoc

\* the managed fields of the token a document loads to
Managed(tok) ==
    [field \in {"access_token", "refresh_token", "expires_at", "scope", "token_type"} |->
        tok[field]]

\* C24: after write_token_file(load_token_file(path)) every key of the original document
\* is in the written one; access_token, refresh_token, token_type and the unknown fields
\* have the original value, expires_at names the same instant and scope the same list of
\* scopes (the written document loads to the same token).
C24_SaveAfterLoadKeepsEveryField ==
    (startup = "saved" /\ tokenObj.raw # Null) =>
        /\ DOMAIN originalDoc \subseteq DOMAIN tokenDoc
        /\ \A key \in DOMAIN originalDoc \ {"expires_at", "scope"} :
              tokenDoc[key] = originalDoc[key]
        /\ ~IsError(TokenData_from_dict(tokenDoc))
        /\ Managed(TokenData_from_dict(tokenDoc)) = Managed(tokenObj)
        /\ Managed(TokenData_from_dict(originalDoc)) = Managed(tokenObj)

\* a document with a refresh token, an expiry written with an offset of one hour, a
\* scope array and an unknown field was loaded and written back
C24_Witness ==
    /\ startup = "saved"
    /\ tokenObj.raw # Null
    /\ truthy(get(originalDoc, "refresh_token"))
    /\ get(originalDoc, "expires_at") = Str("2099-01-01T01:01:00+01:00")
    /\ IsArray(get(originalDoc, "scope"))
    /\ tokenObj.scope = Array(<<"activity", "location">>)
    /\ "user_id" \in DOMAIN originalDoc

---------------------------------------------------------------------------
(* Properties of the activity fetcher *)

\* the pages reached from page p by following the next links
RECURSIVE Chain(_)
Chain(p) ==
    IF serverPages[p].next = 0 THEN <<p>> ELSE <<p>> \o Chain(serverPages[p].next)

\* the activities of the listed pages, page after page
RECURSIVE AllOf(_)
AllOf(pageNos) ==
    IF Len(pageNos) = 0 THEN <<>>
    ELSE Batch(serverPages, pageNos[1]) \o AllOf(Tail(pageNos))

IsPrefix(s, t) == Len(s) <= Len(t) /\ SubSeq(t, 1, Len(s)) = s

\* C25: an iteration requests the pages reached from the first one by the next links,
\* each once and in that order, and yields their activities page after page in batch
\* order; when it has run to its end every such page was requested, every activity was
\* yielded, and the request count, reset when the iteration began, is the number of pages.
C25_OneRequestPerPageInOrder ==
    iterState \in {"request", "yield", "done", "abandoned", "FitbitAPIError"} =>
        /\ IsPrefix(fetched, Chain(1))
        /\ _last_request_count = Len(fetched)
        /\ IsPrefix(yielded, AllOf(fetched))
        /\ iterState = "request" => yielded = AllOf(fetched)
        /\ iterState = "done" =>
              /\ fetched = Chain(1)
              /\ yielded = AllOf(Chain(1))
              /\ _last_request_count = Len(Chain(1))

\* the second iteration has run to its end over three pages, the second of them empty
C25_Witness ==
    /\ iterState = "done"
    /\ iterationsLeft = 0
    /\ _last_request_count = MaxPages
    /\ serverPages[2].size = 0
    /\ Len(yielded) >= MaxPages

\* page_size is outside MinPageSize..MaxPageSize
OutOfRange(size) == size < MinPageSize \/ size > MaxPageSize

\* C26: an iteration started with a page_size below 1 or above 100 ends with ValueError
\* having made no HTTP exchange, requested no page and yielded nothing; page sizes 1 and
\* 100 are accepted.
C26_BadPageSizeFailsBeforeAnyRequest ==
    iterState \notin {"unused", "idle"} =>
        /\ OutOfRange(page_size) <=> iterState = "ValueError"
        /\ iterState = "ValueError" => traffic = 0 /\ fetched = <<>> /\ yielded = <<>>
        /\ page_size \in {0, 101} <=> OutOfRange(page_size)

\* after a full iteration, a second one was started with page_size 101 and failed
C26_Witness ==
    /\ iterState = "ValueError"
    /\ page_size = 101
    /\ iterationsLeft = 0
    /\ _last_request_count > 0
    /\ traffic = 0

---------------------------------------------------------------------------
(* Properties of the month bucketing *)

\* the activities of all buckets together
RECURSIVE SizeOf(_)
SizeOf(keys) ==
    IF keys = {} THEN 0
    ELSE LET k == CHOOSE k \in keys : TRUE
         IN  Len(buckets[k]) + SizeOf(keys \ {k})

\* the record of an activity, without the logId the iterable gave it
TimeFieldsOf(activity) == [name \in DOMAIN activity \ {"logId"} |-> activity[name]]

\* a time field holds a value that parses: _coerce_datetime gives a datetime for it
FieldParses(value) == IsDate(_coerce_datetime(value))

\* the positions in _TIME_FIELDS of the fields of the record that are present and parse
ParsingFields(record) ==
    { i \in 1..Len(_TIME_FIELDS) :
        /\ _TIME_FIELDS[i] \in DOMAIN record
        /\ FieldParses(record[_TIME_FIELDS[i]]) }

\* the record has no time field that parses
Unparseable(record) == ParsingFields(record) = {}

\* the bucketing has taken records from the iterable or has returned
Bucketed == bucketing \notin {"unused", "idle"}

\* C27: the bucketing never aborts; at every point the sizes of the buckets and the
\* skipped count add up to the number of records taken, the skipped count is the number
\* of records without a parseable time field, every bucket holds only records with a
\* parseable time field, and each bucket lists its records in input order.
C27_BucketsPartitionInput ==
    Bucketed =>
        /\ bucketing \in {"running", "done"}
        /\ SizeOf(DOMAIN buckets) + skipped = Len(consumed)
        /\ skipped = Cardinality({ i \in 1..Len(consumed) :
                                     Unparseable(TimeFieldsOf(consumed[i])) })
        /\ \A k \in DOMAIN buckets : \A i \in 1..Len(buckets[k]) :
              /\ ~Unparseable(TimeFieldsOf(buckets[k][i]))
              /\ \A j \in 1..Len(buckets[k]) :
                    i < j => buckets[k][i]["logId"].num < buckets[k][j]["logId"].num

\* C28: the bucket of a record is the month of the first of the five time fields, in
\* priority order, that is present and parses; a field before it that does not parse
\* does not keep the record out of that bucket, and a record is skipped only when none
\* of its fields parses.
C28_FirstParsingFieldDecides ==
    (bucketing = "done" /\ Len(consumed) = 1) =>
        LET record == TimeFieldsOf(consumed[1])
            first == CHOOSE i \in ParsingFields(record) :
                        \A j \in ParsingFields(record) : i <= j
            dt == _coerce_datetime(record[_TIME_FIELDS[first]])
        IN  IF Unparseable(record)
            THEN skipped = 1 /\ DOMAIN buckets = {}
            ELSE /\ skipped = 0
                 /\ DOMAIN buckets = {<<dt.year, dt.month>>}
                 /\ buckets[<<dt.year, dt.month>>] = <<consumed[1]>>

---------------------------------------------------------------------------
(* Properties of the shard files *)

\* what the relative path of each file of SortedShardPaths encodes: shape is TRUE when
\* the path has a directory part of digits, month when its stem also is a month number
ShardShapes ==
    [f \in 1..Len(SortedShardPaths) |->
        LET parts == SortedShardPaths[f]
            name == stem(parts[Len(parts)])
            shape == Len(parts) >= 2 /\ isdigit(parts[1])
        IN  [shape |-> shape,
             month |-> shape /\ isdigit(name) /\ int(name) \in 1..12,
             year |-> parts[1],
             stem |-> name]]

\* C29 as stated: every item of the plan comes from a file whose relative path encodes
\* a year and a month.
C29_OnlyYearMonthShardsContribute ==
    \A n \in 1..Len(collected) : ShardShapes[scanned[FirstOccurrences[n]].file].month

\* C29 as amended: no record of a file whose relative path has fewer than two parts or
\* a first part that is not all digits is looked at, so such a file contributes no item;
\* every other file contributes, and its items are filed under the directory named by
\* the first part with the stem of the file name as month, whatever that stem is.
C29_OnlyDigitYearShardsContribute ==
    /\ \A k \in 1..Len(scanned) : ShardShapes[scanned[k].file].shape
    /\ Len(collected) = Len(FirstOccurrences)
    /\ \A n \in 1..Len(collected) :
          LET first == scanned[FirstOccurrences[n]]
          IN  collected[n].path =
                  output_file(ShardShapes[first.file].year, ShardShapes[first.file].stem,
                              Helpers[first.activity].tcx_id)

\* the plan holds an item of 2024/notes.json, filed under month "notes"
C29_Witness ==
    /\ pc = "planned"
    /\ \E n \in 1..Len(items) : items[n].path = "2024/notes_a.tcx"
    /\ \E k \in 1..Len(scanned) : ~ShardShapes[scanned[k].file].month

\* payloads that are no JSON, or neither an array nor an object with an activities array
BadPayloads == {"object without activities", "scalar", "not json"}

\* C30: when collect_plan comes to a file with a bad path shape, with unparseable JSON
\* or with JSON of the wrong form, it goes on to the next file with the plan, the seen
\* URLs and the records looked at unchanged, and any other file is opened; the plan
\* returned has an item for every first occurrence of a track URL in the opened files.
C30_BadShardsAreSkipped ==
    /\ [][(pc = "scan" /\ shardNo' # shardNo) =>
            IF ~ShardShapes[shardNo'].shape \/ filePayload' \in BadPayloads
            THEN /\ pc' = "scan"
                 /\ collected' = collected
                 /\ seen_urls' = seen_urls
                 /\ scanned' = scanned
            ELSE pc' = "activities"]_vars
    /\ [](pc = "planned" =>
            \A k \in 1..Len(scanned) :
                FirstOccurrence(k) =>
                    \E n \in 1..Len(items) : items[n].url = Helpers[scanned[k].activity].link)

\* the plan was returned with the items of two files, after the last file read was
\* skipped because it held no JSON
C30_Witness ==
    /\ pc = "planned"
    /\ filePayload = "not json"
    /\ shardNo = 3
    /\ Len(items) = 2
    /\ \E j, k \in 1..Len(scanned) : scanned[j].file = 1 /\ scanned[k].file = 2

---------------------------------------------------------------------------
(* Properties of the conversion and merge tools *)

Overwrite ==
    IF tool[1] = "tcx-to-kml" THEN args.overwrite_destination ELSE args.overwrite

MergeDryRun == tool[1] = "merge-kml" /\ args.dry_run

\* an output that was there before the run and may not be replaced
Protected(i) == outputs[i] = OldContent /\ ~Overwrite

\* no step replaces a protected output, and no step of a dry-run merge writes anything
OutputsKept ==
    [][/\ \A i \in DOMAIN outputs : Protected(i) => outputs'[i] = OldContent
       /\ MergeDryRun => outputs' = outputs]_vars

\* every conversion that met a protected output reported failure
ConversionsRefused ==
    tool[1] = "tcx-to-kml" =>
        \A i \in 1..Len(results) : Protected(i) => ~results[i].success

\* C31 as stated: an output that exists is never replaced unless overwrite is set; when
\* the output exists and overwrite is not set, the conversion of that file, or the merge,
\* reports failure; a dry-run merge writes nothing.
C31_NoOverwriteUnlessAsked ==
    /\ OutputsKept
    /\ [](ConversionsRefused)
    /\ [](tool = <<"merge-kml", "exited">> /\ Protected(1) => exit_code # 0)

\* C31 as amended: an output that exists is never replaced unless overwrite is set; when
\* the output exists and overwrite is not set, the conversion of that file, or a merge
\* that is not a dry run, reports failure; a dry-run merge writes nothing.
C31_NoOverwriteUnlessAskedOrDryRun ==
    /\ OutputsKept
    /\ [](ConversionsRefused)
    /\ [](tool = <<"merge-kml", "exited">> /\ Protected(1) /\ ~args.dry_run => exit_code # 0)

\* a merge of files that all hold tracks failed only because its output exists
C31_Witness ==
    /\ tool = <<"merge-kml", "exited">>
    /\ Protected(1)
    /\ ~args.dry_run
    /\ Len(results) = Len(sources)
    /\ Len(sources) > 0
    /\ \A i \in 1..Len(results) : results[i].tracks > 0
    /\ exit_code = 1

---------------------------------------------------------------------------
(* Properties of main of download-tcx.py *)

\* the resume plan file is missing, or there is neither a plan file nor an activities
\* directory
CannotProceed ==
    /\ PlanPath \notin existing
    /\ args.resume_from \/ ActivitiesDir \notin existing

---------------------------------------------------------------------------
(* Termination of request *)

\* the logical request for the one item of a plan, under every configured retry maximum
\* up to the default
InitOneRequest ==
    /\ InitWith(PlansOfLen(1), 0..DefaultMaxRetries, FreeServers, {TokenReplies}, {FALSE}, 1)
    /\ PlainClient
    /\ NoScan
    /\ LibraryAtRest

\* download_plan is one sequential loop that nothing suspends: a step that can be taken
\* is eventually taken
SpecRequestFair == InitOneRequest /\ [][Next]_vars /\ WF_vars(Next)

InRequest == pc \in {"fresh", "send", "response"}

\* C33: a logical request performs at most max_rate_limit_retries + 2 sends; within a
\* request rate_limit_attempts never decreases, and the forced refresh after a 401 leaves
\* it as it is; handling a 429 leaves retry_auth as it is, so the first 401 of a request
\* is retried however many 429 came before it; and every request that was started ends,
\* by returning its response or by raising an API error.
C33_RequestTerminates ==
    /\ [](pc # "idle" => sends <= max_rate_limit_retries + 2)
    /\ [](pc # "idle" /\ seen401 = 0 => retry_auth)
    /\ [][ /\ InRequest => rate_limit_attempts' >= rate_limit_attempts
           /\ (pc = "response" /\ response = 401) =>
                  rate_limit_attempts' = rate_limit_attempts
           /\ (pc = "response" /\ response = 429) => retry_auth' = retry_auth
           /\ (pc = "response" /\ response = 401 /\ seen401 = 1) =>
                  /\ forced' = 1
                  /\ pc' \in {"fresh", "raised"}
         ]_vars
    /\ InRequest ~> (pc \in {"write", "raised"})

\* a request that was rate limited as often as allowed, then refreshed after a 401, and
\* was ended by one more 429: max_rate_limit_retries + 2 sends
C33_Witness ==
    /\ max_rate_limit_retries = 2
    /\ pc = "raised"
    /\ response = 429
    /\ seen429 = 3
    /\ seen401 = 1
    /\ sleeps = 2
    /\ sends = 4

---------------------------------------------------------------------------
(* Properties of the summary *)

\* the items this call of download_plan downloaded
NewlyDownloaded == DownloadedSet(items) \ initialDownloaded

\* C34: the summary download_plan returns counts every item of the plan exactly once.
\* After a normal run total_items = downloaded + already_downloaded + failed and
\* dry_run_listed = 0, the three counts being the numbers of items downloaded by the
\* call, downloaded before it, and failed; after a dry run total_items = dry_run_listed
\* + already_downloaded and downloaded = failed = 0.
C34_SummaryCountsEveryItemOnce ==
    pc = "done" =>
        /\ summary.total_items = Len(items)
        /\ IF dry_run
           THEN /\ summary.total_items = summary.dry_run_listed + summary.already_downloaded
                /\ summary.already_downloaded = Cardinality(DownloadedSet(items))
                /\ summary.downloaded = 0
                /\ summary.failed = 0
           ELSE /\ summary.total_items =
                       summary.downloaded + summary.already_downloaded + summary.failed
                /\ summary.dry_run_listed = 0
                /\ summary.downloaded = Cardinality(NewlyDownloaded)
                /\ summary.already_downloaded = Cardinality(initialDownloaded)
                /\ summary.failed = Cardinality(failedItems)
                /\ NewlyDownloaded \cup initialDownloaded \cup failedItems = Indices
                /\ NewlyDownloaded \cap failedItems = {}
                /\ initialDownloaded \cap failedItems = {}

\* a normal run over three items returned one of each kind
C34_Witness ==
    /\ pc = "done"
    /\ ~dry_run
    /\ summary.total_items = 3
    /\ summary.downloaded = 1
    /\ summary.already_downloaded = 1
    /\ summary.failed = 1

---------------------------------------------------------------------------
(* Order of the steps of one download *)

\* the flag of item i was set by this call
FlaggedNow(i) == items[i].downloaded /\ i \notin initialDownloaded

\* the plan document marks item i downloaded, and the call did not start with it marked
PersistedNow(i) == planFile[i].downloaded /\ i \notin initialDownloaded

\* C35: for each item download_plan downloads, the destination file is written only
\* after the fetch returned a response below 400, the flag is set only after the file was
\* written, and the plan is persisted only after the flag was set. So in every state, at
\* which the process may be terminated, an item the plan document newly marks downloaded
\* is flagged in memory and has its destination file written, and a written file belongs
\* to an item that was requested.
C35_FetchWriteFlagPersist ==
    /\ [](pc # "idle" => \A i \in Indices :
            /\ PersistedNow(i) => FlaggedNow(i)
            /\ FlaggedNow(i) => items[i].path \in written
            /\ items[i].path \in written => i \in requested /\ i \notin failedItems)
    /\ [][ /\ written' # written =>
                /\ response = 200
                /\ idx \in requested
                /\ written' = written \cup {items[idx].path}
                /\ UNCHANGED <<items, planFile>>
           /\ items' # items =>
                /\ items[idx].path \in written
                /\ items' = [items EXCEPT ![idx].downloaded = TRUE]
                /\ UNCHANGED <<written, planFile>>
           /\ planFile' # planFile =>
                /\ items[idx].downloaded
                /\ planFile' = save_plan(items)
                /\ UNCHANGED <<written, items>>
         ]_vars

\* the file of the second item is written and its flag set, and the plan document does
\* not show it yet
C35_Witness ==
    /\ pc = "save"
    /\ idx = 2
    /\ plan_path
    /\ FlaggedNow(2)
    /\ items[2].path \in written
    /\ ~planFile[2].downloaded
    /\ PersistedNow(1)

---------------------------------------------------------------------------
(* Properties of refresh_access_token *)

\* the step is a call of refresh_access_token: the forced one after a 401, or the one
\* _ensure_fresh_token makes for a token that will expire within a minute
ForcedRefresh ==
    /\ pc = "response"
    /\ Branch(response, retry_auth, rate_limit_attempts, max_rate_limit_retries) = "refresh"

FreshRefresh == pc = "fresh" /\ token.has_expiry /\ expiring'

\* the step POSTed to the token endpoint and got no grant: the answer had status >= 400
RefusedByEndpoint == posts' = posts + 1 /\ granted' = granted

\* C36: a refresh the token endpoint answers with status >= 400 raises an API error and
\* leaves the in-memory token and the token file unchanged; so does a refresh that is
\* refused before any POST because the client credentials are unset or, when forced,
\* because no refresh token is stored. (Without force a missing refresh token makes the
\* call return without raising, also leaving both unchanged.)
C36_FailedRefreshChangesNothing ==
    [][ /\ (ForcedRefresh \/ FreshRefresh) /\ RefusedByEndpoint =>
                /\ pc' = "raised"
                /\ UNCHANGED <<token, tokenFile>>
        /\ (ForcedRefresh \/ FreshRefresh) /\ token.refresh_token /\ ~credentials =>
                /\ pc' = "raised"
                /\ posts' = posts
                /\ UNCHANGED <<token, tokenFile>>
        /\ ForcedRefresh /\ ~token.refresh_token =>
                /\ pc' = "raised"
                /\ posts' = posts
                /\ UNCHANGED <<token, tokenFile>>
        /\ FreshRefresh /\ ~token.refresh_token =>
                /\ pc' = "send"
                /\ posts' = posts
                /\ UNCHANGED <<token, tokenFile>>
        /\ pc' = "raised" => UNCHANGED <<token, tokenFile>>
        /\ (token' # token \/ tokenFile' # tokenFile) =>
                /\ posts' = posts + 1
                /\ granted'.ok
                /\ granted' # granted
      ]_vars

\* the token endpoint refused the refresh made before the first send: the request raised
\* and the client still holds the token it was constructed with
C36_Witness ==
    /\ pc = "raised"
    /\ sends = 0
    /\ posts = 1
    /\ forced = 0
    /\ ~granted.ok
    /\ token.refresh_token
    /\ credentials
    /\ token.access_token = 0
    /\ tokenFile = write_token_file(token)


\* the step is a refresh the token endpoint granted
Granted == posts' = posts + 1 /\ granted'.ok /\ token' # token

\* C37: a successful refresh replaces the stored token with the token endpoint's payload:
\* when the payload has no refresh_token the client holds none afterwards, in memory and
\* in the token file; from then on no step POSTs to the token endpoint or changes the
\* token, the refresh before a send goes on to the send without raising, and the forced
\* refresh after a 401 raises.
C37_RefreshReplacesWholesale ==
    /\ [](granted.ok /\ ~granted.refresh_token =>
             ~token.refresh_token /\ ~tokenFile.refresh_token)
    /\ [][ /\ Granted =>
                /\ token'.refresh_token = granted'.refresh_token
                /\ token'.access_token = granted'.access_token
                /\ tokenFile' = write_token_file(token')
           /\ ~token.refresh_token =>
                /\ posts' # posts + 1
                /\ UNCHANGED <<token, tokenFile, granted>>
           /\ ~token.refresh_token /\ pc = "fresh" => pc' = "send"
           /\ ~token.refresh_token /\ ForcedRefresh => pc' = "raised" /\ sends' = sends
         ]_vars

\* the refresh before the first send was granted without a refresh_token; the send was
\* answered 401 and the forced refresh raised without a POST
C37_Witness ==
    /\ pc = "raised"
    /\ granted.ok
    /\ ~granted.refresh_token
    /\ ~token.refresh_token
    /\ token.access_token = granted.access_token
    /\ posts = 1
    /\ sends = 1
    /\ forced = 1
    /\ response = 401


\* the logical request is at its first _ensure_fresh_token with an expiring token that
\* has a refresh token, in a client without client id or client secret
ExpiringWithoutCredentials ==
    /\ pc = "fresh"
    /\ sends = 0
    /\ posts = 0
    /\ token.has_expiry
    /\ expiring \/ expiring'
    /\ token.refresh_token
    /\ ~credentials

\* C40: a logical request of a client whose token is expiring and has a refresh token,
\* but whose client id or client secret is unset, raises an API error at its first step:
\* nothing was sent to the requested URL or POSTed to the token endpoint, and the token
\* and the token file are unchanged; a request that raised without credentials and with
\* such a token never POSTed to the token endpoint.
C40_NoCredentialsFailsBeforeSend ==
    /\ [][ ExpiringWithoutCredentials =>
                /\ pc' = "raised"
                /\ sends' = 0
                /\ posts' = 0
                /\ requested' = requested
                /\ UNCHANGED <<token, tokenFile, sentToken, response>>
         ]_vars
    /\ [](~credentials => posts = 0 /\ ~granted.ok)

\* the request of an expiring token with a refresh token raised before its first send
\* because the client has no credentials
C40_Witness ==
    /\ pc = "raised"
    /\ sends = 0
    /\ posts = 0
    /\ forced = 0
    /\ ~credentials
    /\ token.has_expiry
    /\ expiring
    /\ token.refresh_token
    /\ requested = {}

---------------------------------------------------------------------------
(* Properties of the plan's destination paths *)

\* C38: in the plan collect_plan returns no two items have the same destination path.
C38_DestinationsDistinct ==
    pc = "planned" =>
        \A i, j \in 1..Len(items) : i # j => items[i].path # items[j].path


\* the value is a non-blank string whose URL names a .tcx file
Usable(v) == IsStr(v) /\ strip(v.str) # "" /\ _extract_tcx_id(strip(v.str)) # NoId

\* for the link values of the model: the URL a usable value holds, NoLink otherwise
UsableUrl == [v \in LinkValues |-> IF Usable(v) THEN strip(v.str) ELSE NoLink]

\* C39: an eligible record whose tcx_link or tcxLink holds a usable URL that was not seen
\* before yields a plan item, whatever the other spelling holds.
C39_EitherSpellingYieldsItem ==
    [][ pc = "activities" /\ Len(scanned') = Len(scanned) + 1 =>
            LET activity == scanned'[Len(scanned')].activity
            IN  /\ Helpers[activity].has_distance
                /\ Helpers[activity].has_gps
                /\ \E v \in {activity.tcx_link, activity.tcxLink} :
                        UsableUrl[v] # NoLink /\ UsableUrl[v] \notin seen_urls
                => /\ Len(collected') = Len(collected) + 1
                   /\ collected'[Len(collected')].url
                            \in {UsableUrl[activity.tcx_link], UsableUrl[activity.tcxLink]}
      ]_vars

====
